---- MODULE Spec2Model ----
(***************************************************************************)
(* Realtime OCR dataset generator (ml/generate_realtime_text_dataset.py):  *)
(* text evidence scoring, score fusion, temporal smoothing, label decision *)
(* and the adaptive frame-rate controller driven by the capture loop.      *)
(*                                                                         *)
(* Numbers.  The program computes with binary floating point.  The model   *)
(* uses fixed point:                                                       *)
(*   - scores and thresholds are integers in units of 1/ScoreScale,       *)
(*   - OCR confidences, weights, decay and gain are in hundredths,         *)
(*   - keyword weights are in units of 1/WeightScale (0.35 + len/16 is     *)
(*     exactly (28 + 5*len)/80), so raw scores are in units of 1/8000,     *)
(*   - wall-clock time is in whole ticks, frame rates in tenths of a       *)
(*     frame per second.                                                   *)
(* Every product is divided with rounding to the nearest unit, as a float  *)
(* operation rounds its result.                                            *)
(***************************************************************************)
EXTENDS Integers, Sequences, FiniteSets, TLC

----------------------------------------------------------------------------
(* Bounds of the model *)

\* longest OCR hit list given to score_text_hits
MaxHits == 2
\* frames the capture loop may process before the model stops it
MaxFrames == 3
\* last wall-clock tick
MaxClock == 4
\* longest ledger, and longest list of new rows, given to append_labels_csv
MaxRows == 2
\* concurrent requests to the speech service
MaxRequests == 2

----------------------------------------------------------------------------
(* Fixed-point units *)

ScoreScale == 10000
Hundred == 100
WeightScale == 80
\* ln 2 in units of 1/(WeightScale * Hundred * Hundred), the unit of raw * gain
Ln2 == 554518

Max(a, b) == IF a >= b THEN a ELSE b
Min(a, b) == IF a <= b THEN a ELSE b

\* n / d rounded to the nearest integer (d > 0, n >= 0)
RoundDiv(n, d) == (2 * n + d) \div (2 * d)

RECURSIVE Pow2(_)
Pow2(n) == IF n = 0 THEN 1 ELSE 2 * Pow2(n - 1)

\* math.exp(-x) for x >= 0 given in units of 1/800000; result in units of
\* 1/ScoreScale.  exp(-x) = 2^-n * exp(-r) with x = n ln2 + r; exp(-r) by
\* its Taylor polynomial of degree 6 in Horner form.
RECURSIVE Horner(_, _)
Horner(r, k) ==
  IF k = 7 THEN ScoreScale
  ELSE ScoreScale - (r * Horner(r, k + 1)) \div (k * ScoreScale)

ExpNeg(x) ==
  LET n == x \div Ln2
      r == (x % Ln2) \div ((WeightScale * Hundred * Hundred) \div ScoreScale)
  IN  IF n >= 30 THEN 0 ELSE Horner(r, 1) \div Pow2(n)

----------------------------------------------------------------------------
(* Labels *)

AI_LABELS ==
  << "chatgpt_ui", "claude_ui", "gemini_ui", "copilot_ui", "perplexity_ui",
     "deepseek_ui", "poe_ui", "grok_ui", "qwen_ui", "mistral_ui",
     "meta_ai_ui", "ai_ui" >>

NOT_AI_LABEL == "not_ai_ui"

AiLabelSet == { AI_LABELS[i] : i \in 1..Len(AI_LABELS) }

ClosedLabelSet == AiLabelSet \cup {NOT_AI_LABEL}


----------------------------------------------------------------------------
(* Text normalisation: strings are sequences of one-character strings *)

UpperChars ==
  << "A","B","C","D","E","F","G","H","I","J","K","L","M",
     "N","O","P","Q","R","S","T","U","V","W","X","Y","Z" >>

LowerChars ==
  << "a","b","c","d","e","f","g","h","i","j","k","l","m",
     "n","o","p","q","r","s","t","u","v","w","x","y","z" >>

Digits == { "0","1","2","3","4","5","6","7","8","9" }

\* the characters [0-9a-z] that _ALNUM_RE leaves alone
Alnum == { LowerChars[i] : i \in 1..26 } \cup Digits

Whitespace == { " " }

\* str.lower() on one character
LowerChar(c) ==
  IF \E i \in 1..26 : UpperChars[i] = c
  THEN LowerChars[CHOOSE i \in 1..26 : UpperChars[i] = c]
  ELSE c

LowerCase(s) == [i \in 1..Len(s) |-> LowerChar(s[i])]

\* str.strip(): drop leading and trailing whitespace
RECURSIVE StripLeft(_)
StripLeft(s) ==
  IF s # <<>> /\ Head(s) \in Whitespace THEN StripLeft(Tail(s)) ELSE s

RECURSIVE StripRight(_)
StripRight(s) ==
  IF s # <<>> /\ s[Len(s)] \in Whitespace
  THEN StripRight(SubSeq(s, 1, Len(s) - 1))
  ELSE s

Strip(s) == StripRight(StripLeft(s))

\* _ALNUM_RE.sub(" ", s): every maximal run of characters outside [0-9a-z]
\* becomes one space
RECURSIVE SubNonAlnum(_, _)
SubNonAlnum(s, inRun) ==
  IF s = <<>> THEN <<>>
  ELSE IF Head(s) \in Alnum THEN <<Head(s)>> \o SubNonAlnum(Tail(s), FALSE)
  ELSE IF inRun THEN SubNonAlnum(Tail(s), TRUE)
  ELSE <<" ">> \o SubNonAlnum(Tail(s), TRUE)

normalize_text(value) == Strip(SubNonAlnum(Strip(LowerCase(value)), FALSE))

\* Python's `key in text` on strings
Contains(key, text) ==
  \E i \in 0..(Len(text) - Len(key)) : SubSeq(text, i + 1, i + Len(key)) = key

----------------------------------------------------------------------------
(* Keyword table, in dict iteration order *)

LABEL_KEYWORDS ==
  <<
    [label |-> "chatgpt_ui", keywords |-> <<
        <<"c","h","a","t","g","p","t">>,
        <<"o","p","e","n","a","i">>,
        <<"g","p","t","-","4">>,
        <<"g","p","t","4">>,
        <<"c","h","a","t",".","o","p","e","n","a","i">> >>],
    [label |-> "claude_ui", keywords |-> <<
        <<"c","l","a","u","d","e">>,
        <<"a","n","t","h","r","o","p","i","c">>,
        <<"c","l","a","u","d","e",".","a","i">> >>],
    [label |-> "gemini_ui", keywords |-> <<
        <<"g","e","m","i","n","i">>,
        <<"b","a","r","d">>,
        <<"d","e","e","p","m","i","n","d">>,
        <<"g","e","m","i","n","i",".","g","o","o","g","l","e">> >>],
    [label |-> "copilot_ui", keywords |-> <<
        <<"c","o","p","i","l","o","t">>,
        <<"m","i","c","r","o","s","o","f","t"," ","c","o","p","i","l","o","t">>,
        <<"b","i","n","g"," ","c","h","a","t">> >>],
    [label |-> "perplexity_ui", keywords |-> <<
        <<"p","e","r","p","l","e","x","i","t","y">>,
        <<"p","e","r","p","l","e","x","i","t","y",".","a","i">> >>],
    [label |-> "deepseek_ui", keywords |-> <<
        <<"d","e","e","p","s","e","e","k">>,
        <<"c","h","a","t",".","d","e","e","p","s","e","e","k">> >>],
    [label |-> "poe_ui", keywords |-> <<
        <<"p","o","e",".","c","o","m">>,
        <<"p","o","e"," ","b","y"," ","q","u","o","r","a">>,
        <<"p","o","e">> >>],
    [label |-> "grok_ui", keywords |-> <<
        <<"g","r","o","k">>,
        <<"x","a","i">>,
        <<"g","r","o","k",".","c","o","m">> >>],
    [label |-> "qwen_ui", keywords |-> <<
        <<"q","w","e","n">>,
        <<"t","o","n","g","y","i">>,
        <<"c","h","a","t",".","q","w","e","n",".","a","i">> >>],
    [label |-> "mistral_ui", keywords |-> <<
        <<"m","i","s","t","r","a","l">>,
        <<"l","e"," ","c","h","a","t">>,
        <<"c","h","a","t",".","m","i","s","t","r","a","l",".","a","i">> >>],
    [label |-> "meta_ai_ui", keywords |-> <<
        <<"m","e","t","a"," ","a","i">>,
        <<"m","e","t","a",".","a","i">>,
        <<"l","l","a","m","a">> >>],
    [label |-> "ai_ui", keywords |-> <<
        <<"a","s","s","i","s","t","a","n","t">>,
        <<"c","h","a","t","b","o","t">>,
        <<"l","a","n","g","u","a","g","e"," ","m","o","d","e","l">>,
        <<"l","l","m">>,
        <<"p","r","o","m","p","t">> >>]
  >>
\* every (label, keyword) pair in the order the two nested loops visit them
RECURSIVE KeywordPairsFrom(_)
KeywordPairsFrom(i) ==
  IF i > Len(LABEL_KEYWORDS) THEN <<>>
  ELSE [k \in 1..Len(LABEL_KEYWORDS[i].keywords) |->
          [label |-> LABEL_KEYWORDS[i].label,
           keyword |-> LABEL_KEYWORDS[i].keywords[k],
           key_norm |-> normalize_text(LABEL_KEYWORDS[i].keywords[k])]]
       \o KeywordPairsFrom(i + 1)

KeywordPairs == KeywordPairsFrom(1)

----------------------------------------------------------------------------
(* Text Evidence Extractor: score_text_hits *)

\* mutant: the keyword length divided by 20 instead of 16
KeywordWeight_Over20(key_norm) == Min(WeightScale, 28 + 4 * Len(key_norm))

\* weight = min(1.0, 0.35 + len(key_norm) / 16.0), in units of 1/WeightScale
KeywordWeight(key_norm) == Min(WeightScale, 28 + 5 * Len(key_norm))

\* one MatchedHit candidate: hit.confidence * weight, in units of 1/8000
MatchEntry(hit, pair) ==
  [text |-> hit.text, confidence |-> hit.confidence, bbox |-> hit.bbox,
   label |-> pair.label, keyword |-> pair.keyword,
   score |-> hit.confidence * KeywordWeight(pair.key_norm)]

\* the keyword matches of one hit, in iteration order; a hit whose
\* normalized text is empty is skipped
HitMatches(hit) ==
  LET normalized == normalize_text(hit.text)
      IsMatch(pair) == pair.key_norm # <<>> /\ Contains(pair.key_norm, normalized)
      found == SelectSeq(KeywordPairs, IsMatch)
  IN  IF normalized = <<>> THEN <<>>
      ELSE [i \in 1..Len(found) |-> MatchEntry(hit, found[i])]

\* best_match: the first entry with the strictly largest score
RECURSIVE BestMatch(_, _)
BestMatch(entries, best) ==
  IF entries = <<>> THEN best
  ELSE IF best = <<>> \/ Head(entries).score > best[1].score
       THEN BestMatch(Tail(entries), <<Head(entries)>>)
       ELSE BestMatch(Tail(entries), best)

RECURSIVE SumLabel(_, _)
SumLabel(entries, label) ==
  IF entries = <<>> THEN 0
  ELSE (IF Head(entries).label = label THEN Head(entries).score ELSE 0)
       + SumLabel(Tail(entries), label)

\* raw_scores after the loop over the hits
RECURSIVE RawScores(_)
RawScores(hits) ==
  IF hits = <<>> THEN [label \in AiLabelSet |-> 0]
  ELSE LET rest == RawScores(SubSeq(hits, 1, Len(hits) - 1))
           entries == HitMatches(hits[Len(hits)])
       IN  [label \in AiLabelSet |-> rest[label] + SumLabel(entries, label)]

\* matched: one best match per hit that matched anything
RECURSIVE MatchedHits(_)
MatchedHits(hits) ==
  IF hits = <<>> THEN <<>>
  ELSE BestMatch(HitMatches(Head(hits)), <<>>) \o MatchedHits(Tail(hits))

\* max(...) over a non-empty sequence of numbers
MaxOfSeq(s) ==
  CHOOSE m \in { s[i] : i \in 1..Len(s) } : \A i \in 1..Len(s) : s[i] <= m

\* mutant: math.exp(...) without the `1.0 -`
SaturatedScore_NoComplement(raw, keyword_gain) ==
  ExpNeg(Max(0, raw) * Max(5, keyword_gain))

\* 1.0 - math.exp(-raw * max(0.05, keyword_gain)), raw clamped at 0
SaturatedScore(raw, keyword_gain) ==
  ScoreScale - ExpNeg(Max(0, raw) * Max(5, keyword_gain))

score_text_hits(hits, keyword_gain) ==
  LET raw_scores == RawScores(hits)
      ai == [label \in AiLabelSet |-> SaturatedScore(raw_scores[label], keyword_gain)]
      max_ai == MaxOfSeq([i \in 1..Len(AI_LABELS) |-> ai[AI_LABELS[i]]])
  IN  [text_scores |->
         [label \in ClosedLabelSet |->
            IF label = NOT_AI_LABEL THEN Max(0, ScoreScale - max_ai) ELSE ai[label]],
       matched |-> MatchedHits(hits)]

----------------------------------------------------------------------------
(* Sample OCR texts *)

TextChatGptIsGreat == <<"C","h","a","t","G","P","T"," ","i","s"," ","g","r","e","a","t">>

TextHelloWorld == <<"H","e","l","l","o",","," ","w","o","r","l","d","!">>

TextPunctOnly == <<"!","!","!">>

TextClaudeAnthropic == <<"C","l","a","u","d","e",".","a","i"," ","-"," ","A","n","t","h","r","o","p","i","c">>

TextGptVsGemini == <<"G","P","T","-","4"," ","v","s"," ","G","e","m","i","n","i">>

TextPoem == <<"A"," ","p","o","e","m">>

TextEmpty == <<>>

----------------------------------------------------------------------------
(* Score vectors: dicts from label to score, as functions on their key set *)

\* dict.get(label, 0.0)
Get(scores, label) == IF label \in DOMAIN scores THEN scores[label] ELSE 0

EmptyScores == [label \in {} |-> 0]

----------------------------------------------------------------------------
(* Score Fuser: fuse_scores *)

\* mutant: total is reset to 1.0 but text_weight is left at 0
FuseWeights_ZeroTextWeight(text_weight, model_weight) ==
  LET tw == Max(0, text_weight)
      mw == Max(0, model_weight)
  IN  IF tw + mw <= 0
      THEN [text_weight |-> tw, model_weight |-> mw, total |-> Hundred]
      ELSE [text_weight |-> tw, model_weight |-> mw, total |-> tw + mw]

\* lines 361-367: the weights clamped at 0, and (1, 0) when both are 0
FuseWeights(text_weight, model_weight) ==
  LET tw == Max(0, text_weight)
      mw == Max(0, model_weight)
  IN  IF tw + mw <= 0
      THEN [text_weight |-> Hundred, model_weight |-> 0, total |-> Hundred]
      ELSE [text_weight |-> tw, model_weight |-> mw, total |-> tw + mw]

\* mutant: only the labels of text_scores are fused
FuseLabels_TextOnly(text_scores, model_scores) == DOMAIN text_scores

\* line 368: the labels of the fused vector
FuseLabels(text_scores, model_scores) == DOMAIN text_scores \cup DOMAIN model_scores

fuse_scores(text_scores, model_scores, text_weight, model_weight) ==
  LET w == FuseWeights(text_weight, model_weight)
  IN  [label \in FuseLabels(text_scores, model_scores) |->
         RoundDiv(Get(text_scores, label) * w.text_weight
                    + Get(model_scores, label) * w.model_weight,
                  w.total)]

----------------------------------------------------------------------------
(* Temporal Smoother: smooth_scores *)

\* mutant: decay applied to the current vector instead of the previous one
smooth_scores_SwappedDecay(previous, current, decay) ==
  LET d == Min(Max(decay, 0), 99)
      labels == DOMAIN previous \cup DOMAIN current
  IN  [label \in labels |->
         RoundDiv(Get(previous, label) * (Hundred - d) + Get(current, label) * d, Hundred)]

\* mutant: the current vector is added in full instead of blended
smooth_scores_NoBlend(previous, current, decay) ==
  LET d == Min(Max(decay, 0), 99)
      labels == DOMAIN previous \cup DOMAIN current
  IN  [label \in labels |->
         RoundDiv(Get(previous, label) * d + Get(current, label) * Hundred, Hundred)]

\* mutant: decay not clamped from below
smooth_scores_UnclampedBelow(previous, current, decay) ==
  LET d == Min(decay, 99)
      labels == DOMAIN previous \cup DOMAIN current
  IN  [label \in labels |->
         RoundDiv(Get(previous, label) * d + Get(current, label) * (Hundred - d), Hundred)]

\* mutant: decay clamped to [0, 1.0] instead of [0, 0.99]
smooth_scores_ClampAtOne(previous, current, decay) ==
  LET d == Min(Max(decay, 0), Hundred)
      labels == DOMAIN previous \cup DOMAIN current
  IN  [label \in labels |->
         RoundDiv(Get(previous, label) * d + Get(current, label) * (Hundred - d), Hundred)]

smooth_scores(previous, current, decay) ==
  LET d == Min(Max(decay, 0), 99)
      labels == DOMAIN previous \cup DOMAIN current
  IN  [label \in labels |->
         RoundDiv(Get(previous, label) * d + Get(current, label) * (Hundred - d), Hundred)]

----------------------------------------------------------------------------
(* Label Decider: decide_label *)

\* mutant: among equal largest scores the last key in iteration order wins
decide_label_LastBest(keys, scores, label_threshold) ==
  LET ai_keys == SelectSeq(keys, LAMBDA l : l \in AiLabelSet)
      best_score == MaxOfSeq([i \in 1..Len(ai_keys) |-> scores[ai_keys[i]]])
      IsLastBest(i) == /\ scores[ai_keys[i]] = best_score
                       /\ \A j \in (i + 1)..Len(ai_keys) : scores[ai_keys[j]] # best_score
      best_label == ai_keys[CHOOSE i \in 1..Len(ai_keys) : IsLastBest(i)]
  IN  IF ai_keys = <<>> THEN [label |-> NOT_AI_LABEL, confidence |-> ScoreScale]
      ELSE IF best_score >= label_threshold
           THEN [label |-> best_label, confidence |-> best_score]
           ELSE [label |-> NOT_AI_LABEL,
                 confidence |-> IF NOT_AI_LABEL \in DOMAIN scores
                                THEN scores[NOT_AI_LABEL]
                                ELSE Max(0, ScoreScale - best_score)]

\* mutant: the threshold is exclusive
decide_label_StrictThreshold(keys, scores, label_threshold) ==
  LET ai_keys == SelectSeq(keys, LAMBDA l : l \in AiLabelSet)
      best_score == MaxOfSeq([i \in 1..Len(ai_keys) |-> scores[ai_keys[i]]])
      IsFirstBest(i) == /\ scores[ai_keys[i]] = best_score
                        /\ \A j \in 1..(i - 1) : scores[ai_keys[j]] # best_score
      best_label == ai_keys[CHOOSE i \in 1..Len(ai_keys) : IsFirstBest(i)]
  IN  IF ai_keys = <<>> THEN [label |-> NOT_AI_LABEL, confidence |-> ScoreScale]
      ELSE IF best_score > label_threshold
           THEN [label |-> best_label, confidence |-> best_score]
           ELSE [label |-> NOT_AI_LABEL,
                 confidence |-> IF NOT_AI_LABEL \in DOMAIN scores
                                THEN scores[NOT_AI_LABEL]
                                ELSE Max(0, ScoreScale - best_score)]

\* mutant: the fallback confidence ignores the vector's own not_ai_ui score
decide_label_ComplementOnly(keys, scores, label_threshold) ==
  LET ai_keys == SelectSeq(keys, LAMBDA l : l \in AiLabelSet)
      best_score == MaxOfSeq([i \in 1..Len(ai_keys) |-> scores[ai_keys[i]]])
      IsFirstBest(i) == /\ scores[ai_keys[i]] = best_score
                        /\ \A j \in 1..(i - 1) : scores[ai_keys[j]] # best_score
      best_label == ai_keys[CHOOSE i \in 1..Len(ai_keys) : IsFirstBest(i)]
  IN  IF ai_keys = <<>> THEN [label |-> NOT_AI_LABEL, confidence |-> ScoreScale]
      ELSE IF best_score >= label_threshold
           THEN [label |-> best_label, confidence |-> best_score]
           ELSE [label |-> NOT_AI_LABEL,
                 confidence |-> Max(0, ScoreScale - best_score)]

\* decide_label on a dict whose iteration order is `keys` (a sequence holding
\* each key of `scores` once): max(ai_candidates, key=...) returns the first
\* key, in iteration order, that carries the largest value
decide_label(keys, scores, label_threshold) ==
  LET ai_keys == SelectSeq(keys, LAMBDA l : l \in AiLabelSet)
      best_score == MaxOfSeq([i \in 1..Len(ai_keys) |-> scores[ai_keys[i]]])
      IsFirstBest(i) == /\ scores[ai_keys[i]] = best_score
                        /\ \A j \in 1..(i - 1) : scores[ai_keys[j]] # best_score
      best_label == ai_keys[CHOOSE i \in 1..Len(ai_keys) : IsFirstBest(i)]
  IN  IF ai_keys = <<>> THEN [label |-> NOT_AI_LABEL, confidence |-> ScoreScale]
      ELSE IF best_score >= label_threshold
           THEN [label |-> best_label, confidence |-> best_score]
           ELSE [label |-> NOT_AI_LABEL,
                 confidence |-> IF NOT_AI_LABEL \in DOMAIN scores
                                THEN scores[NOT_AI_LABEL]
                                ELSE Max(0, ScoreScale - best_score)]

\* the labels in a fixed reference order
LabelOrder == AI_LABELS \o <<NOT_AI_LABEL, "class_0", "class_1">>

\* the keys of `scores` with `first` moved to the front
KeysWithFirst(scores, first) ==
  <<first>> \o SelectSeq(LabelOrder, LAMBDA l : l \in DOMAIN scores /\ l # first)

\* smooth_scores fills its result by iterating a set of strings, whose order
\* changes with the interpreter's hash seed: the dict handed to decide_label
\* may have any key first.  The decisions decide_label can return over all
\* iteration orders (which key is first among the largest decides it).
Decisions(scores, label_threshold) ==
  IF DOMAIN scores = {} THEN { decide_label(<<>>, scores, label_threshold) }
  ELSE { decide_label(KeysWithFirst(scores, first), scores, label_threshold) :
           first \in DOMAIN scores }

----------------------------------------------------------------------------
(* Command line (parse_args): the configurations the model runs *)

\* argparse defaults; times in ticks of one second, rates in tenths of a
\* frame per second, scores in units of 1/ScoreScale, the rest in hundredths
DefaultArgs ==
  [ base_fps |-> 40, high_fps |-> 80,
    high_fps_trigger |-> 2000, high_fps_return_threshold |-> 1200,
    high_fps_hold_seconds |-> 3, label_threshold |-> 2000,
    save_mode |-> "all",
    ocr_every_n_frames |-> 1, ocr_interval_seconds |-> 5,
    keyword_gain |-> 70, ema_decay |-> 65,
    text_weight |-> 75, model_weight |-> 25,
    duration_seconds |-> 0, max_frames |-> 0,
    preview |-> FALSE, onnx_model |-> FALSE ]

\* frame-rate controller settings, crossed with each other
ControllerArgs ==
  { [DefaultArgs EXCEPT !.base_fps = b, !.high_fps = h,
                        !.high_fps_hold_seconds = hold, !.ema_decay = 0,
                        !.ocr_interval_seconds = 0] :
      b \in {5, 40}, h \in {20, 80}, hold \in {-1, 0, 2} }

\* other pipeline settings, each on the defaults
PipelineArgs ==
  { [DefaultArgs EXCEPT !.ocr_interval_seconds = 0],
    [DefaultArgs EXCEPT !.onnx_model = TRUE, !.max_frames = 2,
                        !.ocr_interval_seconds = 0],
    [DefaultArgs EXCEPT !.ocr_every_n_frames = 2, !.ocr_interval_seconds = 2,
                        !.ema_decay = 0, !.high_fps_hold_seconds = 1],
    [DefaultArgs EXCEPT !.save_mode = "ai-only", !.max_frames = 2,
                        !.preview = TRUE, !.ocr_interval_seconds = 0],
    [DefaultArgs EXCEPT !.duration_seconds = 3, !.ocr_interval_seconds = 0,
                        !.high_fps_trigger = 1000,
                        !.high_fps_return_threshold = 1500, !.ema_decay = 0] }

Configs == ControllerArgs \cup PipelineArgs

----------------------------------------------------------------------------
(* What the OCR engine and the auxiliary model may return *)

Box == <<0, 0, 10, 10>>

Hit(text, confidence) == [text |-> text, confidence |-> confidence, bbox |-> Box]

\* results of parse_ocr_hits(ocr_reader.readtext(...)) for one frame
OcrOutputs ==
  { <<>>,
    << Hit(TextClaudeAnthropic, 90) >>,
    << Hit(TextHelloWorld, 95), Hit(TextChatGptIsGreat, 40) >> }

\* results of OnnxModelScorer.predict for one frame
ModelOutputs ==
  { [label \in {NOT_AI_LABEL, "ai_ui"} |-> IF label = "ai_ui" THEN 9000 ELSE 1000],
    [label \in {"class_0", "class_1"} |-> IF label = "class_0" THEN 6000 ELSE 4000] }

----------------------------------------------------------------------------
\* score_text_hits on each OCR result the model draws, computed once
Gains == { a.keyword_gain : a \in Configs }

ScoredOcr == [hits \in OcrOutputs, gain \in Gains |-> score_text_hits(hits, gain)]

----------------------------------------------------------------------------
(* CSV ledger: append_labels_csv *)

\* rows sorted ascending by image_path (stable)
SortRows(rows) ==
  LET Before(k, j) == \/ rows[k].image_path < rows[j].image_path
                      \/ rows[k].image_path = rows[j].image_path /\ k < j
      Rank(j) == Cardinality({ k \in 1..Len(rows) : Before(k, j) })
  IN  [i \in 1..Len(rows) |-> rows[CHOOSE j \in 1..Len(rows) : Rank(j) = i - 1]]

\* mutant: drop_duplicates with keep="first"
DropDuplicates_KeepFirst(rows) ==
  LET Keep(i) == \A j \in 1..(i - 1) : rows[j].image_path # rows[i].image_path
      kept == { i \in 1..Len(rows) : Keep(i) }
      RECURSIVE Pick(_)
      Pick(i) == IF i > Len(rows) THEN <<>>
                 ELSE (IF i \in kept THEN <<rows[i]>> ELSE <<>>) \o Pick(i + 1)
  IN  Pick(1)

\* drop_duplicates(subset=["image_path"], keep="last")
DropDuplicates(rows) ==
  LET Keep(i) == \A j \in (i + 1)..Len(rows) : rows[j].image_path # rows[i].image_path
      kept == { i \in 1..Len(rows) : Keep(i) }
      RECURSIVE Pick(_)
      Pick(i) == IF i > Len(rows) THEN <<>>
                 ELSE (IF i \in kept THEN <<rows[i]>> ELSE <<>>) \o Pick(i + 1)
  IN  Pick(1)

append_labels_csv(frame, rows) ==
  IF rows = <<>> THEN frame ELSE SortRows(DropDuplicates(frame \o rows))

----------------------------------------------------------------------------
(* The capture loop: main *)

VARIABLES
  args,               \* parsed command line
  pc,                 \* position of main
  clock,              \* wall clock (time.time()), in ticks
  start_time,
  frame_index,
  saved_count,
  high_mode_until,
  current_fps,
  smoothed_scores,
  last_ocr_hits,
  last_matched_hits,
  last_text_scores,
  last_ocr_run_ts,
  rows_to_append,
  preview_closed,     \* PreviewWindow._closed
  run_ocr_this_frame, \* locals of the current iteration
  ocr_hits,
  matched_hits,
  text_scores,
  model_scores,
  fused,
  predicted,          \* (predicted_label, predicted_conf)
  ai_max,
  now,
  images,             \* frames whose JPEG was written
  metas,              \* frames whose JSON sidecar was written
  ledger,             \* rows of labels/classification.csv
  prev_fps,           \* history: current_fps, high_mode_until when the
  prev_until,         \*   controller step began
  triggered_at,       \* history: `now` of every iteration whose peak reached the trigger
  ocr_seen_hits,      \* history: some OCR run has returned a hit
  ocr_last,           \* history: the most recent OCR run (frame, time, hits,
                      \*   time of the run before it, number of runs)
  decided_log,        \* history: the label decided for each frame
  late_saves,         \* history: images written with the duration elapsed
  interrupted,        \* history: a KeyboardInterrupt was raised in the loop
  paced,              \* history: the pause that ended the last iteration
  fn_in,              \* a call of one of the pure functions: its arguments,
  fn_out,             \*   its result,
  fn_done,            \*   whether it has returned
  settings,           \* speech service: the Settings it was started with
  requests,           \* speech service: the /v1/stt/transcribe requests
  semaphore,          \* FasterWhisperSttService._semaphore: free permits
  running,            \* requests whose _transcribe_sync runs in a worker thread
  temp_files          \* requests whose upload temp file exists

histVars == << ocr_last, decided_log, late_saves, interrupted >>

loopVars ==
  << args, pc, clock, start_time, frame_index, saved_count, high_mode_until,
     current_fps, smoothed_scores, last_ocr_hits, last_matched_hits,
     last_text_scores, last_ocr_run_ts, rows_to_append,
     preview_closed, run_ocr_this_frame, ocr_hits, matched_hits, text_scores,
     model_scores, fused, predicted, ai_max, now, images, metas, ledger,
     prev_fps, prev_until, triggered_at, ocr_seen_hits, histVars, paced >>

fnVars == << fn_in, fn_out, fn_done >>

svcVars == << settings, requests, semaphore, running, temp_files >>

vars == << loopVars, fnVars, svcVars >>

\* the requests of the speech service
Requests == 1..MaxRequests

\* a request before its handler has started; `left` and `total` count the
\* chunks of the upload still to read and read so far, `temp_path` is
\* whether the handler's temp_path has been assigned, `result` what the
\* worker thread has delivered
NewRequest ==
  [pc |-> "new", status |-> 0, left |-> 0, total |-> 0, temp_path |-> FALSE,
   result |-> "none"]

\* the settings the model runs: the defaults, concurrency and upload limit
\* of 0 and of 2, and STT disabled
SttSettings ==
  { [stt_enabled |-> TRUE, stt_max_concurrency |-> 1, max_upload_mb |-> 1],
    [stt_enabled |-> TRUE, stt_max_concurrency |-> 0, max_upload_mb |-> 0],
    [stt_enabled |-> TRUE, stt_max_concurrency |-> 2, max_upload_mb |-> 2],
    [stt_enabled |-> FALSE, stt_max_concurrency |-> 1, max_upload_mb |-> 1] }

\* the service after start-up with settings s, no request yet
ServiceInit(s) ==
  /\ settings = s
  /\ requests = [r \in Requests |-> NewRequest]
  /\ semaphore = Max(1, s.stt_max_concurrency)
  /\ running = {}
  /\ temp_files = {}

\* the service's variables while another program is exercised
ServiceIdle ==
  ServiceInit([stt_enabled |-> TRUE, stt_max_concurrency |-> 1, max_upload_mb |-> 1])

\* a reading of time.time(): the clock never runs backwards
ClockReadings == clock..MaxClock

ZeroScores == [label \in ClosedLabelSet |-> 0]

NoCall == [op |-> "none"]

NoPace == [current_fps |-> 0, elapsed |-> 0, sleep_time |-> 0]

\* main up to the first iteration of `while True`, for one command line
LoopInit(a) ==
  /\ args = a
  /\ pc = "top"
  /\ clock = 1
  /\ start_time = 1
  /\ frame_index = 0
  /\ saved_count = 0
  /\ high_mode_until = 0
  /\ current_fps = Max(10, a.base_fps)
  /\ smoothed_scores = EmptyScores
  /\ last_ocr_hits = <<>>
  /\ last_matched_hits = <<>>
  /\ last_text_scores = ZeroScores
  /\ last_ocr_run_ts = 0
  /\ rows_to_append = <<>>
  /\ preview_closed = FALSE
  /\ run_ocr_this_frame = FALSE
  /\ ocr_hits = <<>>
  /\ matched_hits = <<>>
  /\ text_scores = ZeroScores
  /\ model_scores = EmptyScores
  /\ fused = EmptyScores
  /\ predicted = [label |-> NOT_AI_LABEL, confidence |-> 0]
  /\ ai_max = 0
  /\ now = 0
  /\ images = {}
  /\ metas = {}
  /\ ledger = <<>>
  /\ prev_fps = Max(10, a.base_fps)
  /\ prev_until = 0
  /\ triggered_at = {}
  /\ ocr_seen_hits = FALSE
  /\ ocr_last = [frame |-> -1, ts |-> 0, hits |-> <<>>, prev_ts |-> 0, runs |-> 0]
  /\ decided_log = <<>>
  /\ late_saves = 0
  /\ interrupted = FALSE
  /\ paced = NoPace

Init ==
  /\ \E a \in Configs : LoopInit(a)
  /\ fn_in = NoCall
  /\ fn_out = NoCall
  /\ fn_done = FALSE
  /\ ServiceIdle

\* line 552: the duration limit, against a reading t of the clock
DurationElapsed(t) ==
  args.duration_seconds > 0 /\ t - start_time >= args.duration_seconds

\* mutant: the frame-count limit is not checked
LoopTop_NoFrameLimit ==
  /\ pc = "top"
  /\ \E t \in (IF args.duration_seconds > 0 THEN ClockReadings ELSE {clock}) :
       /\ clock' = t
       /\ IF \/ DurationElapsed(t)
             \/ preview_closed
          THEN pc' = "finally"
          ELSE /\ frame_index < MaxFrames
               /\ pc' = "process"
  /\ paced' = NoPace
  /\ UNCHANGED << args, start_time, frame_index, saved_count, high_mode_until,
                  current_fps, smoothed_scores, last_ocr_hits, last_matched_hits,
                  last_text_scores, last_ocr_run_ts, rows_to_append,
                  preview_closed, run_ocr_this_frame, ocr_hits, matched_hits,
                  text_scores, model_scores, fused, predicted, ai_max, now,
                  images, metas, ledger, prev_fps, prev_until, triggered_at,
                  ocr_seen_hits, histVars, fnVars, svcVars >>

\* lines 550-558: the stop conditions at the top of an iteration
LoopTop ==
  /\ pc = "top"
  /\ \E t \in (IF args.duration_seconds > 0 THEN ClockReadings ELSE {clock}) :
       /\ clock' = t
       /\ IF \/ DurationElapsed(t)
             \/ args.max_frames > 0 /\ frame_index >= args.max_frames
             \/ preview_closed
          THEN pc' = "finally"
          ELSE /\ frame_index < MaxFrames
               /\ pc' = "process"
  /\ paced' = NoPace
  /\ UNCHANGED << args, start_time, frame_index, saved_count, high_mode_until,
                  current_fps, smoothed_scores, last_ocr_hits, last_matched_hits,
                  last_text_scores, last_ocr_run_ts, rows_to_append,
                  preview_closed, run_ocr_this_frame, ocr_hits, matched_hits,
                  text_scores, model_scores, fused, predicted, ai_max, now,
                  images, metas, ledger, prev_fps, prev_until, triggered_at,
                  ocr_seen_hits, histVars, fnVars, svcVars >>

\* mutant: either condition alone lets OCR run
RunOcr_EitherCondition(now_loop) ==
  LET ocr_every_n_frames == Max(1, args.ocr_every_n_frames)
      ocr_interval_seconds == Max(0, args.ocr_interval_seconds)
      by_frame == frame_index = 0 \/ frame_index % ocr_every_n_frames = 0
      by_time == \/ frame_index = 0
                 \/ ocr_interval_seconds <= 0
                 \/ now_loop - last_ocr_run_ts >= ocr_interval_seconds
  IN  by_frame \/ by_time

\* lines 566-569: whether OCR runs on this frame
RunOcr(now_loop) ==
  LET ocr_every_n_frames == Max(1, args.ocr_every_n_frames)
      ocr_interval_seconds == Max(0, args.ocr_interval_seconds)
      by_frame == frame_index = 0 \/ frame_index % ocr_every_n_frames = 0
      by_time == \/ frame_index = 0
                 \/ ocr_interval_seconds <= 0
                 \/ now_loop - last_ocr_run_ts >= ocr_interval_seconds
  IN  by_frame /\ by_time

\* mutant: an OCR run does not store its text_scores in last_text_scores
OcrStep_ForgetsLastScores(run, hits, now_loop) ==
  IF run
  THEN LET scored == ScoredOcr[hits, args.keyword_gain]
       IN  [ocr_hits |-> hits, matched_hits |-> scored.matched,
            text_scores |-> scored.text_scores,
            last_ocr_hits |-> hits, last_matched_hits |-> scored.matched,
            last_text_scores |-> last_text_scores,
            last_ocr_run_ts |-> now_loop]
  ELSE [ocr_hits |-> last_ocr_hits, matched_hits |-> last_matched_hits,
        text_scores |-> last_text_scores,
        last_ocr_hits |-> last_ocr_hits, last_matched_hits |-> last_matched_hits,
        last_text_scores |-> last_text_scores,
        last_ocr_run_ts |-> last_ocr_run_ts]

\* lines 570-597: the OCR result the iteration uses and the one it remembers;
\* `hits` is what parse_ocr_hits returned when OCR ran
OcrStep(run, hits, now_loop) ==
  IF run
  THEN LET scored == ScoredOcr[hits, args.keyword_gain]
       IN  [ocr_hits |-> hits, matched_hits |-> scored.matched,
            text_scores |-> scored.text_scores,
            last_ocr_hits |-> hits, last_matched_hits |-> scored.matched,
            last_text_scores |-> scored.text_scores,
            last_ocr_run_ts |-> now_loop]
  ELSE [ocr_hits |-> last_ocr_hits, matched_hits |-> last_matched_hits,
        text_scores |-> last_text_scores,
        last_ocr_hits |-> last_ocr_hits, last_matched_hits |-> last_matched_hits,
        last_text_scores |-> last_text_scores,
        last_ocr_run_ts |-> last_ocr_run_ts]

\* lines 560-604: grab the frame, run or reuse OCR, score, fuse, smooth, decide
Process ==
  /\ pc = "process"
  /\ \E now_loop \in ClockReadings :
       \E hits \in (IF RunOcr(now_loop) THEN OcrOutputs ELSE {<<>>}) :
         LET run == RunOcr(now_loop)
             ocr == OcrStep(run, hits, now_loop)
         IN  /\ clock' = now_loop
             /\ run_ocr_this_frame' = run
             /\ ocr_hits' = ocr.ocr_hits
             /\ matched_hits' = ocr.matched_hits
             /\ text_scores' = ocr.text_scores
             /\ last_ocr_hits' = ocr.last_ocr_hits
             /\ last_matched_hits' = ocr.last_matched_hits
             /\ last_text_scores' = ocr.last_text_scores
             /\ last_ocr_run_ts' = ocr.last_ocr_run_ts
             /\ ocr_seen_hits' = (ocr_seen_hits \/ (run /\ hits # <<>>))
             /\ ocr_last' = IF run
                            THEN [frame |-> frame_index, ts |-> now_loop,
                                  hits |-> hits, prev_ts |-> ocr_last.ts,
                                  runs |-> Min(ocr_last.runs + 1, 2)]
                            ELSE ocr_last
  /\ model_scores' \in (IF args.onnx_model THEN ModelOutputs ELSE {EmptyScores})
  /\ fused' = fuse_scores(text_scores', model_scores', args.text_weight, args.model_weight)
  /\ smoothed_scores' = smooth_scores(smoothed_scores, fused', args.ema_decay)
  /\ predicted' \in Decisions(smoothed_scores', args.label_threshold)
  /\ decided_log' = Append(decided_log, predicted'.label)
  /\ pc' = "control"
  /\ UNCHANGED << args, start_time, frame_index, saved_count, high_mode_until,
                  current_fps, rows_to_append, preview_closed,
                  ai_max, now, images, metas, ledger, prev_fps, prev_until,
                  triggered_at, late_saves, interrupted, paced, fnVars, svcVars >>

\* line 606
AiPeak(scores) ==
  MaxOfSeq([i \in 1..Len(AI_LABELS) |-> Get(scores, AI_LABELS[i])])

\* mutant: the return threshold is tested before the hold window
ControllerStep_ReturnFirst(peak, t, until, fps) ==
  LET until1 == IF peak >= args.high_fps_trigger
                THEN t + Max(0, args.high_fps_hold_seconds)
                ELSE until
      fps1 == IF peak <= args.high_fps_return_threshold THEN args.base_fps
              ELSE IF t < until1 THEN Max(args.base_fps, args.high_fps)
              ELSE fps
  IN  [high_mode_until |-> until1, current_fps |-> fps1]

\* mutant: the return branch clamps base_fps at 1.0 as the initialisation does
ControllerStep_ClampedBase(peak, t, until, fps) ==
  LET until1 == IF peak >= args.high_fps_trigger
                THEN t + Max(0, args.high_fps_hold_seconds)
                ELSE until
      fps1 == IF t < until1 THEN Max(args.base_fps, args.high_fps)
              ELSE IF peak <= args.high_fps_return_threshold THEN Max(10, args.base_fps)
              ELSE fps
  IN  [high_mode_until |-> until1, current_fps |-> fps1]

\* mutant: no dead band, everything outside the hold window returns to base_fps
ControllerStep_NoDeadBand(peak, t, until, fps) ==
  LET until1 == IF peak >= args.high_fps_trigger
                THEN t + Max(0, args.high_fps_hold_seconds)
                ELSE until
      fps1 == IF t < until1 THEN Max(args.base_fps, args.high_fps)
              ELSE args.base_fps
  IN  [high_mode_until |-> until1, current_fps |-> fps1]

\* mutant: high-fps mode sets high_fps itself, not max(base_fps, high_fps)
ControllerStep_HighNotMax(peak, t, until, fps) ==
  LET until1 == IF peak >= args.high_fps_trigger
                THEN t + Max(0, args.high_fps_hold_seconds)
                ELSE until
      fps1 == IF t < until1 THEN args.high_fps
              ELSE IF peak <= args.high_fps_return_threshold THEN args.base_fps
              ELSE fps
  IN  [high_mode_until |-> until1, current_fps |-> fps1]

\* mutant: the hold duration is taken as given, negative values included
ControllerStep_RawHold(peak, t, until, fps) ==
  LET until1 == IF peak >= args.high_fps_trigger
                THEN t + args.high_fps_hold_seconds
                ELSE until
      fps1 == IF t < until1 THEN Max(args.base_fps, args.high_fps)
              ELSE IF peak <= args.high_fps_return_threshold THEN args.base_fps
              ELSE fps
  IN  [high_mode_until |-> until1, current_fps |-> fps1]

\* lines 608-614: the frame-rate controller; state is (high_mode_until, current_fps)
ControllerStep(peak, t, until, fps) ==
  LET until1 == IF peak >= args.high_fps_trigger
                THEN t + Max(0, args.high_fps_hold_seconds)
                ELSE until
      fps1 == IF t < until1 THEN Max(args.base_fps, args.high_fps)
              ELSE IF peak <= args.high_fps_return_threshold THEN args.base_fps
              ELSE fps
  IN  [high_mode_until |-> until1, current_fps |-> fps1]

\* lines 606-614
Control ==
  /\ pc = "control"
  /\ \E t \in ClockReadings :
       LET peak == AiPeak(smoothed_scores)
           step == ControllerStep(peak, t, high_mode_until, current_fps)
       IN  /\ clock' = t
           /\ now' = t
           /\ ai_max' = peak
           /\ high_mode_until' = step.high_mode_until
           /\ current_fps' = step.current_fps
           /\ triggered_at' = IF peak >= args.high_fps_trigger
                              THEN triggered_at \cup {t} ELSE triggered_at
  /\ prev_fps' = current_fps
  /\ prev_until' = high_mode_until
  /\ pc' = "save"
  /\ UNCHANGED << args, start_time, frame_index, saved_count, smoothed_scores,
                  last_ocr_hits, last_matched_hits, last_text_scores,
                  last_ocr_run_ts, rows_to_append, preview_closed,
                  run_ocr_this_frame, ocr_hits, matched_hits, text_scores,
                  model_scores, fused, predicted, images, metas, ledger,
                  ocr_seen_hits, histVars, paced, fnVars, svcVars >>

\* mutant: every frame is saved, whatever the save mode
SaveFrame_Always == TRUE

\* line 621
SaveFrame == args.save_mode = "all" \/ predicted.label # NOT_AI_LABEL

\* lines 621-632: decide whether to persist; write the JPEG
SaveImage ==
  /\ pc = "save"
  /\ IF SaveFrame
     THEN /\ images' = images \cup {frame_index}
          /\ late_saves' = IF DurationElapsed(clock) THEN late_saves + 1 ELSE late_saves
          /\ pc' = "meta"
     ELSE /\ UNCHANGED << images, late_saves >>
          /\ pc' = "preview"
  /\ UNCHANGED << args, clock, start_time, frame_index, saved_count,
                  high_mode_until, current_fps, smoothed_scores, last_ocr_hits,
                  last_matched_hits, last_text_scores, last_ocr_run_ts,
                  rows_to_append, preview_closed, run_ocr_this_frame,
                  ocr_hits, matched_hits, text_scores, model_scores, fused,
                  predicted, ai_max, now, metas, ledger, prev_fps, prev_until,
                  triggered_at, ocr_seen_hits, ocr_last, decided_log, interrupted,
                  paced, fnVars, svcVars >>

\* lines 634-657: write the JSON sidecar
SaveMeta ==
  /\ pc = "meta"
  /\ metas' = metas \cup {frame_index}
  /\ pc' = "row"
  /\ UNCHANGED << args, clock, start_time, frame_index, saved_count,
                  high_mode_until, current_fps, smoothed_scores, last_ocr_hits,
                  last_matched_hits, last_text_scores, last_ocr_run_ts,
                  rows_to_append, preview_closed, run_ocr_this_frame,
                  ocr_hits, matched_hits, text_scores, model_scores, fused,
                  predicted, ai_max, now, images, ledger, prev_fps, prev_until,
                  triggered_at, ocr_seen_hits, histVars, paced, fnVars, svcVars >>

\* lines 659-673: queue the ledger row
AppendRow ==
  /\ pc = "row"
  /\ rows_to_append' =
       Append(rows_to_append,
              [image_path |-> frame_index, label |-> predicted.label])
  /\ saved_count' = saved_count + 1
  /\ pc' = "preview"
  /\ UNCHANGED << args, clock, start_time, frame_index, high_mode_until,
                  current_fps, smoothed_scores, last_ocr_hits, last_matched_hits,
                  last_text_scores, last_ocr_run_ts, preview_closed,
                  run_ocr_this_frame, ocr_hits, matched_hits, text_scores,
                  model_scores, fused, predicted, ai_max, now, images, metas,
                  ledger, prev_fps, prev_until, triggered_at, ocr_seen_hits, histVars, paced, fnVars, svcVars >>

\* lines 675-690: preview.update processes window events, among them the
\* user's closing of the window (PreviewWindow._on_close)
Preview ==
  /\ pc = "preview"
  /\ preview_closed' \in (IF args.preview /\ ~preview_closed
                          THEN {FALSE, TRUE} ELSE {preview_closed})
  /\ pc' = "pace"
  /\ UNCHANGED << args, clock, start_time, frame_index, saved_count,
                  high_mode_until, current_fps, smoothed_scores, last_ocr_hits,
                  last_matched_hits, last_text_scores, last_ocr_run_ts,
                  rows_to_append, run_ocr_this_frame, ocr_hits,
                  matched_hits, text_scores, model_scores, fused, predicted,
                  ai_max, now, images, metas, ledger, prev_fps, prev_until,
                  triggered_at, ocr_seen_hits, histVars, paced, fnVars, svcVars >>

\* readings of time.perf_counter() - loop_start, in milliseconds
ElapsedReadings == {0, 125, 600, 1500}

\* mutant: the period is 1/current_fps, whatever current_fps is
Period_Unclamped(fps) == (1000 * 10) \div fps

\* line 694: 1.0 / max(1.0, current_fps), in milliseconds (rates are in
\* tenths of a frame per second)
Period(fps) == (1000 * 10) \div Max(10, fps)

\* line 694: sleep_time = max(0.0, period - elapsed), in milliseconds
SleepTime(fps, elapsed) == Max(0, Period(fps) - elapsed)

\* lines 692-696: count the frame and sleep out the rest of the period
Pace ==
  /\ pc = "pace"
  /\ frame_index' = frame_index + 1
  /\ \E elapsed \in ElapsedReadings :
       paced' = [current_fps |-> current_fps, elapsed |-> elapsed,
                 sleep_time |-> SleepTime(current_fps, elapsed)]
  /\ pc' = "top"
  /\ UNCHANGED << args, clock, start_time, saved_count, high_mode_until,
                  current_fps, smoothed_scores, last_ocr_hits, last_matched_hits,
                  last_text_scores, last_ocr_run_ts, rows_to_append,
                  preview_closed, run_ocr_this_frame, ocr_hits, matched_hits,
                  text_scores, model_scores, fused, predicted, ai_max, now,
                  images, metas, ledger, prev_fps, prev_until, triggered_at, ocr_seen_hits, histVars, fnVars, svcVars >>

\* lines 699-700: finally: preview.close()
Finally ==
  /\ pc = "finally"
  /\ preview_closed' = (IF args.preview THEN TRUE ELSE preview_closed)
  /\ pc' = "append"
  /\ UNCHANGED << args, clock, start_time, frame_index, saved_count,
                  high_mode_until, current_fps, smoothed_scores, last_ocr_hits,
                  last_matched_hits, last_text_scores, last_ocr_run_ts,
                  rows_to_append, run_ocr_this_frame, ocr_hits,
                  matched_hits, text_scores, model_scores, fused, predicted,
                  ai_max, now, images, metas, ledger, prev_fps, prev_until,
                  triggered_at, ocr_seen_hits, histVars, paced, fnVars, svcVars >>

\* line 702 and the summary
AppendCsv ==
  /\ pc = "append"
  /\ ledger' = append_labels_csv(ledger, rows_to_append)
  /\ pc' = "done"
  /\ UNCHANGED << args, clock, start_time, frame_index, saved_count,
                  high_mode_until, current_fps, smoothed_scores, last_ocr_hits,
                  last_matched_hits, last_text_scores, last_ocr_run_ts,
                  rows_to_append, preview_closed, run_ocr_this_frame,
                  ocr_hits, matched_hits, text_scores, model_scores, fused,
                  predicted, ai_max, now, images, metas, prev_fps, prev_until,
                  triggered_at, ocr_seen_hits, histVars, paced, fnVars, svcVars >>

Next ==
  \/ LoopTop
  \/ Process
  \/ Control
  \/ SaveImage
  \/ SaveMeta
  \/ AppendRow
  \/ Preview
  \/ Pace
  \/ Finally
  \/ AppendCsv

Spec == Init /\ [][Next]_vars

\* the capture loop on the settings with a preview or a duration limit, every
\* step of the sequential program eventually taken (each call returns)
ExitArgs ==
  { a \in PipelineArgs : a.preview \/ a.duration_seconds > 0 }

InitExit ==
  /\ \E a \in ExitArgs : LoopInit(a)
  /\ fn_in = NoCall
  /\ fn_out = NoCall
  /\ fn_done = FALSE
  /\ ServiceIdle

SpecExit == InitExit /\ [][Next]_vars /\ WF_vars(Next)

\* line 632: saved_image.save raises an I/O error; the file may already have
\* been created.  No handler but `finally` encloses the call.
ImageWriteFails ==
  /\ pc = "save"
  /\ SaveFrame
  /\ images' \in {images, images \cup {frame_index}}
  /\ pc' = "unwind"
  /\ UNCHANGED << args, clock, start_time, frame_index, saved_count,
                  high_mode_until, current_fps, smoothed_scores, last_ocr_hits,
                  last_matched_hits, last_text_scores, last_ocr_run_ts,
                  rows_to_append, preview_closed, run_ocr_this_frame,
                  ocr_hits, matched_hits, text_scores, model_scores, fused,
                  predicted, ai_max, now, metas, ledger, prev_fps, prev_until,
                  triggered_at, ocr_seen_hits, histVars, paced, fnVars, svcVars >>

\* line 657: meta_path.write_text raises an I/O error
MetaWriteFails ==
  /\ pc = "meta"
  /\ metas' \in {metas, metas \cup {frame_index}}
  /\ pc' = "unwind"
  /\ UNCHANGED << args, clock, start_time, frame_index, saved_count,
                  high_mode_until, current_fps, smoothed_scores, last_ocr_hits,
                  last_matched_hits, last_text_scores, last_ocr_run_ts,
                  rows_to_append, preview_closed, run_ocr_this_frame,
                  ocr_hits, matched_hits, text_scores, model_scores, fused,
                  predicted, ai_max, now, images, ledger, prev_fps, prev_until,
                  triggered_at, ocr_seen_hits, histVars, paced, fnVars, svcVars >>

\* lines 697-700 with an exception other than KeyboardInterrupt in flight:
\* `finally` closes the preview and the exception leaves main; line 702 and
\* the summary are not reached
Unwind ==
  /\ pc = "unwind"
  /\ preview_closed' = (IF args.preview THEN TRUE ELSE preview_closed)
  /\ pc' = "failed"
  /\ UNCHANGED << args, clock, start_time, frame_index, saved_count,
                  high_mode_until, current_fps, smoothed_scores, last_ocr_hits,
                  last_matched_hits, last_text_scores, last_ocr_run_ts,
                  rows_to_append, run_ocr_this_frame, ocr_hits,
                  matched_hits, text_scores, model_scores, fused, predicted,
                  ai_max, now, images, metas, ledger, prev_fps, prev_until,
                  triggered_at, ocr_seen_hits, histVars, paced, fnVars, svcVars >>

\* line 560, 571 or 599: grab_frame, the OCR engine or the model raises
ProcessFails ==
  /\ pc = "process"
  /\ pc' = "unwind"
  /\ UNCHANGED << args, clock, start_time, frame_index, saved_count,
                  high_mode_until, current_fps, smoothed_scores, last_ocr_hits,
                  last_matched_hits, last_text_scores, last_ocr_run_ts,
                  rows_to_append, preview_closed, run_ocr_this_frame,
                  ocr_hits, matched_hits, text_scores, model_scores, fused,
                  predicted, ai_max, now, images, metas, ledger, prev_fps,
                  prev_until, triggered_at, ocr_seen_hits, histVars, paced, fnVars, svcVars >>

\* the positions of main inside `while True`
LoopPcs == {"top", "process", "control", "save", "meta", "row", "preview", "pace"}

\* mutant: KeyboardInterrupt is not caught
Interrupt_Uncaught ==
  /\ pc \in LoopPcs
  /\ interrupted' = TRUE
  /\ pc' = "unwind"
  /\ UNCHANGED << args, clock, start_time, frame_index, saved_count,
                  high_mode_until, current_fps, smoothed_scores, last_ocr_hits,
                  last_matched_hits, last_text_scores, last_ocr_run_ts,
                  rows_to_append, preview_closed, run_ocr_this_frame,
                  ocr_hits, matched_hits, text_scores, model_scores, fused,
                  predicted, ai_max, now, images, metas, ledger, prev_fps,
                  prev_until, triggered_at, ocr_seen_hits, ocr_last,
                  decided_log, late_saves, paced, fnVars, svcVars >>

\* lines 697-698: KeyboardInterrupt raised anywhere in the loop is caught and
\* control passes to `finally`.  The statement it interrupts may have taken
\* effect or not: the image file while it is written (line 632), the
\* metadata file (line 657), the queued row with saved_count not yet
\* incremented (lines 666-673).
Interrupt ==
  /\ pc \in LoopPcs
  /\ interrupted' = TRUE
  /\ pc' = "finally"
  /\ images' \in (IF pc = "save" /\ SaveFrame
                  THEN {images, images \cup {frame_index}} ELSE {images})
  /\ metas' \in (IF pc = "meta"
                 THEN {metas, metas \cup {frame_index}} ELSE {metas})
  /\ rows_to_append' \in
       (IF pc = "row"
        THEN {rows_to_append,
              Append(rows_to_append,
                     [image_path |-> frame_index, label |-> predicted.label])}
        ELSE {rows_to_append})
  /\ UNCHANGED << args, clock, start_time, frame_index, saved_count,
                  high_mode_until, current_fps, smoothed_scores, last_ocr_hits,
                  last_matched_hits, last_text_scores, last_ocr_run_ts,
                  preview_closed, run_ocr_this_frame,
                  ocr_hits, matched_hits, text_scores, model_scores, fused,
                  predicted, ai_max, now, ledger, prev_fps,
                  prev_until, triggered_at, ocr_seen_hits, ocr_last,
                  decided_log, late_saves, paced, fnVars, svcVars >>

NextFaults ==
  \/ Next
  \/ ImageWriteFails
  \/ MetaWriteFails
  \/ ProcessFails
  \/ Interrupt
  \/ Unwind

\* the capture loop with failing calls and user interrupts
SpecFaults == InitExit /\ [][NextFaults]_vars
----------------------------------------------------------------------------
(* Calls of the pure functions on their own *)

\* the loop's variables while a pure function is exercised alone
LoopIdle == LoopInit([DefaultArgs EXCEPT !.ocr_interval_seconds = 0])

SampleTexts ==
  { TextChatGptIsGreat, TextHelloWorld, TextPunctOnly, TextClaudeAnthropic,
    TextGptVsGemini, TextPoem, TextEmpty }

SampleHits == { Hit(text, confidence) : text \in SampleTexts, confidence \in {40, 90} }

\* every hit list of at most MaxHits sample hits
HitLists == UNION { [1..n -> SampleHits] : n \in 0..MaxHits }

\* score_text_hits(hits, keyword_gain)
InitScore ==
  /\ LoopIdle
  /\ fn_in \in { [op |-> "score_text_hits", hits |-> hits, keyword_gain |-> gain] :
                   hits \in HitLists, gain \in {0, 70} }
  /\ fn_out = NoCall
  /\ fn_done = FALSE
  /\ ServiceIdle

ScoreCall ==
  /\ ~fn_done
  /\ fn_in.op = "score_text_hits"
  /\ fn_out' = score_text_hits(fn_in.hits, fn_in.keyword_gain)
  /\ fn_done' = TRUE
  /\ UNCHANGED << fn_in, loopVars, svcVars >>

SpecScore == InitScore /\ [][ScoreCall]_vars

\* score vectors handed to fuse_scores: outputs of score_text_hits, of the
\* model, and dicts with other key sets
TextVectors ==
  { ScoredOcr[hits, 70].text_scores : hits \in OcrOutputs }
    \cup { EmptyScores, [label \in {"chatgpt_ui", "ai_ui"} |-> 5000] }

ModelVectors ==
  ModelOutputs
    \cup { EmptyScores,
           [label \in ClosedLabelSet |-> IF label = "claude_ui" THEN 7000 ELSE 250] }

FuseWeightInputs == { -50, 0, 25, 75, 100 }

\* fuse_scores(text_scores, model_scores, text_weight, model_weight)
InitFuse ==
  /\ LoopIdle
  /\ fn_in \in { [op |-> "fuse_scores", text_scores |-> t, model_scores |-> m,
                  text_weight |-> tw, model_weight |-> mw] :
                   t \in TextVectors, m \in ModelVectors,
                   tw \in FuseWeightInputs, mw \in FuseWeightInputs }
  /\ fn_out = NoCall
  /\ fn_done = FALSE
  /\ ServiceIdle

FuseCall ==
  /\ ~fn_done
  /\ fn_in.op = "fuse_scores"
  /\ fn_out' = fuse_scores(fn_in.text_scores, fn_in.model_scores,
                           fn_in.text_weight, fn_in.model_weight)
  /\ fn_done' = TRUE
  /\ UNCHANGED << fn_in, loopVars, svcVars >>

SpecFuse == InitFuse /\ [][FuseCall]_vars

\* vectors handed to smooth_scores: empty (the first call), the closed-set
\* shape with an extreme gap, and key sets that differ from one another
SmoothVectors ==
  { EmptyScores,
    [label \in {"chatgpt_ui", "not_ai_ui"} |->
       IF label = "chatgpt_ui" THEN ScoreScale ELSE 0],
    [label \in {"chatgpt_ui", "claude_ui", "class_0"} |->
       IF label = "chatgpt_ui" THEN 300 ELSE IF label = "claude_ui" THEN 9000 ELSE 49] }

\* --ema-decay values, inside and outside [0, 0.99]
DecayInputs == { -50, 0, 50, 65, 99, 150 }

\* smooth_scores(previous, current, decay)
InitSmooth ==
  /\ LoopIdle
  /\ fn_in \in { [op |-> "smooth_scores", previous |-> p, current |-> c, decay |-> d] :
                   p \in SmoothVectors, c \in SmoothVectors, d \in DecayInputs }
  /\ fn_out = NoCall
  /\ fn_done = FALSE
  /\ ServiceIdle

SmoothCall ==
  /\ ~fn_done
  /\ fn_in.op = "smooth_scores"
  /\ fn_out' = smooth_scores(fn_in.previous, fn_in.current, fn_in.decay)
  /\ fn_done' = TRUE
  /\ UNCHANGED << fn_in, loopVars, svcVars >>

\* line 602 in the next iteration with the same fused vector: the result of
\* the last call is the `previous` of this one
SmoothAgain ==
  /\ fn_done
  /\ fn_in.op = "smooth_scores"
  /\ fn_in' = [fn_in EXCEPT !.previous = fn_out]
  /\ fn_out' = smooth_scores(fn_out, fn_in.current, fn_in.decay)
  /\ UNCHANGED << fn_done, loopVars, svcVars >>

\* the loop smooths once per iteration, so a pending call is always made
SpecSmooth ==
  /\ InitSmooth
  /\ [][SmoothCall \/ SmoothAgain]_vars
  /\ WF_vars(SmoothCall)
  /\ WF_vars(SmoothAgain)

\* key sets of the vectors handed to decide_label: none, no AI label, AI
\* labels with and without not_ai_ui
DecideKeySets ==
  { {}, {NOT_AI_LABEL}, {"class_0", NOT_AI_LABEL},
    {"chatgpt_ui", "claude_ui"}, {"chatgpt_ui", "claude_ui", NOT_AI_LABEL} }

\* scores around the default threshold 0.2, and one above 1.0
DecideScoreValues == { 0, 1999, 2000, 9000, 12000 }

DecideThresholds == { 0, 2000, 15000 }

\* the orders a dict with key set `labels` can iterate in
KeyOrders(labels) ==
  { order \in [1..Cardinality(labels) -> labels] :
      \A i, j \in 1..Cardinality(labels) : order[i] = order[j] => i = j }

\* decide_label(scores, label_threshold); `keys` is the iteration order of
\* the dict `scores`
InitDecide ==
  /\ LoopIdle
  /\ \E labels \in DecideKeySets :
       fn_in \in { [op |-> "decide_label", keys |-> order, scores |-> scores,
                    label_threshold |-> threshold, earlier |-> NoCall] :
                     order \in KeyOrders(labels),
                     scores \in [labels -> DecideScoreValues],
                     threshold \in DecideThresholds }
  /\ fn_out = NoCall
  /\ fn_done = FALSE
  /\ ServiceIdle

DecideCall ==
  /\ ~fn_done
  /\ fn_in.op = "decide_label"
  /\ fn_out' = decide_label(fn_in.keys, fn_in.scores, fn_in.label_threshold)
  /\ fn_done' = TRUE
  /\ UNCHANGED << fn_in, loopVars, svcVars >>

\* a second call, on a dict with the same content built in another order
DecideReordered ==
  /\ fn_done
  /\ fn_in.op = "decide_label"
  /\ fn_in.earlier = NoCall
  /\ \E order \in KeyOrders(DOMAIN fn_in.scores) :
       /\ order # fn_in.keys
       /\ fn_in' = [fn_in EXCEPT !.keys = order, !.earlier = fn_out]
       /\ fn_out' = decide_label(order, fn_in.scores, fn_in.label_threshold)
  /\ UNCHANGED << fn_done, loopVars, svcVars >>

SpecDecide == InitDecide /\ [][DecideCall \/ DecideReordered]_vars

\* ledger rows: image paths by their rank in string order, two labels
CsvRows == [image_path : 1..3, label : {"chatgpt_ui", NOT_AI_LABEL}]

\* the ledger file as it is found (any order, duplicates possible) and the
\* rows of a run
RowLists == UNION { [1..n -> CsvRows] : n \in 0..MaxRows }

\* append_labels_csv(labels_csv, rows); `frame` is the content of labels_csv
InitCsv ==
  /\ LoopIdle
  /\ fn_in \in { [op |-> "append_labels_csv", frame |-> frame, rows |-> rows] :
                   frame \in RowLists, rows \in RowLists }
  /\ fn_out = NoCall
  /\ fn_done = FALSE
  /\ ServiceIdle

CsvCall ==
  /\ ~fn_done
  /\ fn_in.op = "append_labels_csv"
  /\ fn_out' = append_labels_csv(fn_in.frame, fn_in.rows)
  /\ fn_done' = TRUE
  /\ UNCHANGED << fn_in, loopVars, svcVars >>

SpecCsv == InitCsv /\ [][CsvCall]_vars

\* one entry of the list reader.readtext returns, by what the code looks at:
\* whether it is a list or tuple, its length, and its first three fields
RawItem(is_seq, len, bbox_raw, text_raw, conf_raw) ==
  [is_seq |-> is_seq, len |-> len, bbox_raw |-> bbox_raw,
   text_raw |-> text_raw, conf_raw |-> conf_raw]

\* a point of a bounding polygon; `numeric` is whether int() accepts its
\* coordinates
Point(x, y) == [numeric |-> TRUE, x |-> x, y |-> y]

JunkPoint == [numeric |-> FALSE, x |-> 0, y |-> 0]

\* a bounding polygon; `iterable` is whether `for point in bbox_raw` works
Polygon(points) == [iterable |-> TRUE, points |-> points]

NotIterable == [iterable |-> FALSE, points |-> <<>>]

SquarePolygon == Polygon(<< Point(0, 0), Point(10, 0), Point(10, 10), Point(0, 10) >>)

\* a confidence field; `number` is isinstance(conf_raw, (float, int)),
\* `value` is in hundredths
Number(value) == [number |-> TRUE, value |-> value]

NotANumber == [number |-> FALSE, value |-> 0]

MinOfSeq(s) ==
  CHOOSE m \in { s[i] : i \in 1..Len(s) } : \A i \in 1..Len(s) : m <= s[i]

NoHit == Hit(<<>>, 0)

\* float(conf_raw) if it is a number else 0.0, then max(0.0, min(1.0, .))
ClampConfidence(conf_raw) ==
  Max(0, Min(Hundred, IF conf_raw.number THEN conf_raw.value ELSE 0))

\* the body of the for loop of parse_ocr_hits on one item: the item is
\* skipped ("skip"), appended as a hit ("hit"), or an exception leaves the
\* function ("raise": min(xs) of an empty list is outside the try)
ParseItem(item) ==
  IF ~item.is_seq \/ item.len < 3
  THEN [outcome |-> "skip", hit |-> NoHit]
  ELSE LET text == Strip(item.text_raw)
           confidence == ClampConfidence(item.conf_raw)
           points == item.bbox_raw.points
           xs == [i \in 1..Len(points) |-> points[i].x]
           ys == [i \in 1..Len(points) |-> points[i].y]
       IN  IF text = <<>>
           THEN [outcome |-> "skip", hit |-> NoHit]
           ELSE IF \/ ~item.bbox_raw.iterable
                   \/ \E i \in 1..Len(points) : ~points[i].numeric
           THEN [outcome |-> "skip", hit |-> NoHit]
           ELSE IF points = <<>>
           THEN [outcome |-> "raise", hit |-> NoHit]
           ELSE [outcome |-> "hit",
                 hit |-> [text |-> text, confidence |-> confidence,
                          bbox |-> << MinOfSeq(xs), MinOfSeq(ys),
                                      MaxOfSeq(xs), MaxOfSeq(ys) >>]]

\* parse_ocr_hits(raw): `raised` when an exception left the function,
\* otherwise the hits in the order of their items
parse_ocr_hits(raw) ==
  LET parsed == [i \in 1..Len(raw) |-> ParseItem(raw[i])]
      kept == SelectSeq(parsed, LAMBDA p : p.outcome = "hit")
  IN  IF \E i \in 1..Len(raw) : parsed[i].outcome = "raise"
      THEN [raised |-> TRUE, hits |-> <<>>]
      ELSE [raised |-> FALSE, hits |-> [i \in 1..Len(kept) |-> kept[i].hit]]

TextPadded == << " " >> \o TextHelloWorld \o << " ", " " >>

TextBlank == << " ", " " >>

\* entries of a raw OCR batch: well formed ones, and one for every way the
\* code tells an entry is malformed
RawItems ==
  { RawItem(TRUE, 3, SquarePolygon, TextChatGptIsGreat, Number(90)),
    RawItem(TRUE, 3, SquarePolygon, TextPadded, Number(150)),
    RawItem(TRUE, 3, Polygon(<< Point(4, 7) >>), TextHelloWorld, Number(-20)),
    RawItem(TRUE, 3, SquarePolygon, TextHelloWorld, NotANumber),
    RawItem(FALSE, 0, NotIterable, TextEmpty, NotANumber),
    RawItem(TRUE, 2, SquarePolygon, TextHelloWorld, NotANumber),
    RawItem(TRUE, 3, SquarePolygon, TextBlank, Number(90)),
    RawItem(TRUE, 3, NotIterable, TextHelloWorld, Number(90)),
    RawItem(TRUE, 3, Polygon(<< Point(0, 0), JunkPoint >>), TextHelloWorld, Number(90)),
    RawItem(TRUE, 3, Polygon(<<>>), TextHelloWorld, Number(90)) }

\* every raw batch of at most MaxHits entries
RawBatches == UNION { [1..n -> RawItems] : n \in 0..MaxHits }

\* parse_ocr_hits(raw)
InitParse ==
  /\ LoopIdle
  /\ fn_in \in { [op |-> "parse_ocr_hits", raw |-> raw] : raw \in RawBatches }
  /\ fn_out = NoCall
  /\ fn_done = FALSE
  /\ ServiceIdle

ParseCall ==
  /\ ~fn_done
  /\ fn_in.op = "parse_ocr_hits"
  /\ fn_out' = parse_ocr_hits(fn_in.raw)
  /\ fn_done' = TRUE
  /\ UNCHANGED << fn_in, loopVars, svcVars >>

SpecParse == InitParse /\ [][ParseCall]_vars

\* line 343 in IEEE doubles: 1.0 - math.exp(-x) is exactly 1.0 once
\* math.exp(-x) is at most 2^-54, half the gap between 1.0 and the double
\* below it, that is once x >= 54 ln 2 (about 37.43)
RoundsToOne(raw, keyword_gain) ==
  Max(0, raw) * Max(5, keyword_gain) >= 54 * Ln2

\* --keyword-gain: below the floor of 0.05, the default 0.7, and 100.0
GainInputs == {0, 70, 10000}

\* hits with and without a keyword, at a low and a high confidence
MonotoneHits ==
  { Hit(text, confidence) :
      text \in {TextChatGptIsGreat, TextHelloWorld, TextClaudeAnthropic},
      confidence \in {40, 90} }

MonotoneLists == UNION { [1..n -> MonotoneHits] : n \in 0..MaxHits }

\* score_text_hits(hits, keyword_gain), to be followed by a call on a list
\* that differs in one place
InitMonotone ==
  /\ LoopIdle
  /\ fn_in \in { [op |-> "score_text_hits", hits |-> hits, keyword_gain |-> gain,
                  earlier |-> NoCall] :
                   hits \in MonotoneLists, gain \in GainInputs }
  /\ fn_out = NoCall
  /\ fn_done = FALSE
  /\ ServiceIdle

\* a second call, with the confidence of one hit raised
ScoreRaised ==
  /\ fn_done
  /\ fn_in.op = "score_text_hits"
  /\ fn_in.earlier = NoCall
  /\ \E i \in 1..Len(fn_in.hits), confidence \in {40, 90} :
       /\ confidence > fn_in.hits[i].confidence
       /\ LET hits == [fn_in.hits EXCEPT ![i].confidence = confidence]
          IN  /\ fn_in' = [fn_in EXCEPT !.hits = hits, !.earlier = fn_out.text_scores]
              /\ fn_out' = score_text_hits(hits, fn_in.keyword_gain)
  /\ UNCHANGED << fn_done, loopVars, svcVars >>

\* a second call, with one more hit at the end of the list
ScoreExtended ==
  /\ fn_done
  /\ fn_in.op = "score_text_hits"
  /\ fn_in.earlier = NoCall
  /\ Len(fn_in.hits) < MaxHits
  /\ \E hit \in MonotoneHits :
       LET hits == Append(fn_in.hits, hit)
       IN  /\ fn_in' = [fn_in EXCEPT !.hits = hits, !.earlier = fn_out.text_scores]
           /\ fn_out' = score_text_hits(hits, fn_in.keyword_gain)
  /\ UNCHANGED << fn_done, loopVars, svcVars >>

SpecMonotone == InitMonotone /\ [][ScoreCall \/ ScoreRaised \/ ScoreExtended]_vars

----------------------------------------------------------------------------
(* The speech service: the IP allowlist of src/selfhost-speech/app/security.py *)

\* addresses of either version are shortened to this many bits
AddressBits == 4

\* the text of an address: whether ip_address() accepts it, its version and
\* value
Address(version, value) == [valid |-> TRUE, version |-> version, value |-> value]

JunkAddress == [valid |-> FALSE, version |-> 4, value |-> 0]

\* an entry of SPEECH_API_IP_ALLOWLIST: whether it contains "/" and ":",
\* the address part and the prefix length after the "/"
Entry(slash, colon, address, prefix) ==
  [slash |-> slash, colon |-> colon, address |-> address, prefix |-> prefix]

NotANetwork == [parsed |-> FALSE, version |-> 4, base |-> 0, prefix |-> 0]

\* ip_network(text, strict=False): the host bits are masked off; ValueError
\* when the address is not one or the prefix is longer than the address
IpNetwork(address, prefix) ==
  IF address.valid /\ prefix \in 0..AddressBits
  THEN LET span == Pow2(AddressBits - prefix)
       IN  [parsed |-> TRUE, version |-> address.version,
            base |-> (address.value \div span) * span, prefix |-> prefix]
  ELSE NotANetwork

\* lines 38-42: an entry with "/" is parsed as it is, one without gets the
\* full prefix of the version its text suggests ("/128" if it has a ":")
ParseEntry(raw) ==
  IF raw.slash
  THEN IpNetwork(raw.address, raw.prefix)
  ELSE IF raw.address.valid /\ (raw.address.version = 6) # raw.colon
       THEN NotANetwork
       ELSE IpNetwork(raw.address, AddressBits)

\* lines 35-44: the networks built once from settings.ip_allowlist; entries
\* that raise ValueError are dropped
Networks(ip_allowlist) ==
  LET parsed == [i \in 1..Len(ip_allowlist) |-> ParseEntry(ip_allowlist[i])]
  IN  SelectSeq(parsed, LAMBDA net : net.parsed)

\* client_ip in net
InNetwork(address, net) ==
  /\ address.version = net.version
  /\ LET span == Pow2(AddressBits - net.prefix)
     IN  address.value \div span = net.base \div span

\* request.client: absent, or a host string
NoClient == [present |-> FALSE, host |-> JunkAddress]

Client(host) == [present |-> TRUE, host |-> host]

\* lines 46-62: the dependency; 200 stands for a return without exception
IpAllowlistDependency(networks, client) ==
  IF networks = <<>> THEN 200
  ELSE IF ~client.present THEN 403
  ELSE IF ~client.host.valid THEN 403
  ELSE IF \E i \in 1..Len(networks) : InNetwork(client.host, networks[i]) THEN 200
  ELSE 403

\* require_ip_allowlist(settings) applied to a request
require_ip_allowlist(ip_allowlist, client) ==
  IpAllowlistDependency(Networks(ip_allowlist), client)

\* entries: a network with host bits set, a host, an IPv6 host, text that is
\* no address, and a prefix longer than the address
AllowlistEntries ==
  { Entry(TRUE, FALSE, Address(4, 9), 1),
    Entry(FALSE, FALSE, Address(4, 5), 0),
    Entry(FALSE, TRUE, Address(6, 1), 0),
    Entry(FALSE, FALSE, JunkAddress, 0),
    Entry(TRUE, FALSE, Address(4, 5), AddressBits + 1) }

\* the configured lists: at most two entries
Allowlists == UNION { [1..n -> AllowlistEntries] : n \in 0..2 }

Clients ==
  { NoClient, Client(JunkAddress), Client(Address(4, 5)), Client(Address(4, 12)),
    Client(Address(4, 2)), Client(Address(6, 1)), Client(Address(6, 12)) }

\* one request to a gated endpoint
InitAllowlist ==
  /\ LoopIdle
  /\ fn_in \in { [op |-> "require_ip_allowlist", ip_allowlist |-> ip_allowlist,
                  client |-> client] :
                   ip_allowlist \in Allowlists, client \in Clients }
  /\ fn_out = NoCall
  /\ fn_done = FALSE
  /\ ServiceIdle

AllowlistCall ==
  /\ ~fn_done
  /\ fn_in.op = "require_ip_allowlist"
  /\ fn_out' = require_ip_allowlist(fn_in.ip_allowlist, fn_in.client)
  /\ fn_done' = TRUE
  /\ UNCHANGED << fn_in, loopVars, svcVars >>

SpecAllowlist == InitAllowlist /\ [][AllowlistCall]_vars

----------------------------------------------------------------------------
(* The speech service: POST /v1/stt/transcribe (main.py, audio_utils.py, stt.py) *)

\* sizes of an upload, in chunks of 1 MiB
UploadSizes == {0, 1, 3}

\* main.py line 131: max_bytes, in chunks of 1 MiB
MaxUploadChunks == Max(1, settings.max_upload_mb)

\* form field `task`, or the default when it is absent
Tasks == {"transcribe", "translate", "summarize"}

\* main.py lines 131-134, audio_utils.py lines 14-18: the handler starts and
\* save_upload_to_temp_file creates the temp file (delete=False)
CreateTempFile(r) ==
  /\ requests[r].pc = "new"
  /\ \E size \in UploadSizes :
       requests' = [requests EXCEPT ![r].pc = "upload", ![r].left = size]
  /\ temp_files' = temp_files \cup {r}
  /\ UNCHANGED << settings, semaphore, running, loopVars, fnVars >>

\* audio_utils.py lines 19-32: one turn of the read loop: the end of the
\* upload returns the path, a chunk beyond the limit unlinks the file and
\* raises 413, any other chunk is written
ReadChunk(r) ==
  /\ requests[r].pc = "upload"
  /\ IF requests[r].left = 0
     THEN /\ requests' = [requests EXCEPT ![r].pc = "transcribe",
                                          ![r].temp_path = TRUE, ![r].total = 0]
          /\ temp_files' = temp_files
     ELSE IF requests[r].total + 1 > MaxUploadChunks
     THEN /\ requests' = [requests EXCEPT ![r].pc = "finally", ![r].status = 413,
                                          ![r].left = 0, ![r].total = 0]
          /\ temp_files' = temp_files \ {r}
     ELSE /\ requests' = [requests EXCEPT ![r].left = @ - 1, ![r].total = @ + 1]
          /\ temp_files' = temp_files
  /\ UNCHANGED << settings, semaphore, running, loopVars, fnVars >>

\* audio_utils.py lines 20, 30: upload.read or handle.write raises (the
\* client went away, the disk is full); the `with` closes the handle and the
\* exception reaches the handler before temp_path is assigned
ReadFails(r) ==
  /\ requests[r].pc = "upload"
  /\ requests' = [requests EXCEPT ![r].pc = "finally", ![r].status = 500,
                                  ![r].left = 0, ![r].total = 0]
  /\ UNCHANGED << settings, semaphore, running, temp_files, loopVars, fnVars >>

\* stt.py lines 62-68: transcribe_file up to the semaphore
TranscribeFile(r) ==
  /\ requests[r].pc = "transcribe"
  /\ \E task \in Tasks :
       IF ~settings.stt_enabled
       THEN requests' = [requests EXCEPT ![r].pc = "finally", ![r].status = 503]
       ELSE IF task \notin {"transcribe", "translate"}
       THEN requests' = [requests EXCEPT ![r].pc = "finally", ![r].status = 400]
       ELSE requests' = [requests EXCEPT ![r].pc = "acquire"]
  /\ UNCHANGED << settings, semaphore, running, temp_files, loopVars, fnVars >>

\* stt.py lines 70-73: a permit is taken and asyncio.to_thread starts
\* _transcribe_sync in a worker thread
Acquire(r) ==
  /\ requests[r].pc = "acquire"
  /\ semaphore > 0
  /\ semaphore' = semaphore - 1
  /\ running' = running \cup {r}
  /\ requests' = [requests EXCEPT ![r].pc = "awaiting"]
  /\ UNCHANGED << settings, temp_files, loopVars, fnVars >>

\* stt.py lines 84-136: _transcribe_sync ends in its thread, with a result
\* or an exception; nobody receives it if the request has timed out
ThreadReturns(r) ==
  /\ r \in running
  /\ running' = running \ {r}
  /\ \E outcome \in {"ok", "error"} :
       requests' = [requests EXCEPT
                      ![r].result = IF requests[r].pc = "awaiting" THEN outcome ELSE @]
  /\ UNCHANGED << settings, semaphore, temp_files, loopVars, fnVars >>

\* stt.py lines 72-82: wait_for delivers the thread's outcome and the
\* semaphore is released
Complete(r) ==
  /\ requests[r].pc = "awaiting"
  /\ requests[r].result # "none"
  /\ semaphore' = semaphore + 1
  /\ requests' = [requests EXCEPT
                    ![r].pc = "finally",
                    ![r].status = IF requests[r].result = "ok" THEN 200 ELSE 500]
  /\ UNCHANGED << settings, running, temp_files, loopVars, fnVars >>

\* stt.py lines 72-80: the timeout of wait_for expires first: the awaited
\* future is cancelled, which does not stop the worker thread, 504 is raised
\* and the semaphore is released
Timeout(r) ==
  /\ requests[r].pc = "awaiting"
  /\ requests[r].result = "none"
  /\ semaphore' = semaphore + 1
  /\ requests' = [requests EXCEPT ![r].pc = "finally", ![r].status = 504]
  /\ UNCHANGED << settings, running, temp_files, loopVars, fnVars >>

\* main.py lines 152-158: finally: the temp file is removed if temp_path
\* was assigned
RemoveTempFile(r) ==
  /\ requests[r].pc = "finally"
  /\ temp_files' = IF requests[r].temp_path THEN temp_files \ {r} ELSE temp_files
  /\ requests' = [requests EXCEPT ![r].pc = "done"]
  /\ UNCHANGED << settings, semaphore, running, loopVars, fnVars >>

InitStt ==
  /\ LoopIdle
  /\ fn_in = NoCall
  /\ fn_out = NoCall
  /\ fn_done = FALSE
  /\ \E s \in SttSettings : ServiceInit(s)

NextStt ==
  \E r \in Requests :
    \/ CreateTempFile(r)
    \/ ReadChunk(r)
    \/ ReadFails(r)
    \/ TranscribeFile(r)
    \/ Acquire(r)
    \/ ThreadReturns(r)
    \/ Complete(r)
    \/ Timeout(r)
    \/ RemoveTempFile(r)

SpecStt == InitStt /\ [][NextStt]_vars

----------------------------------------------------------------------------
(* Properties *)

\* max(base_fps, high_fps): the rate of high-fps mode
HighFps == Max(args.base_fps, args.high_fps)

\* the label of this iteration has been decided (lines 602-604 have run)
Decided == pc \in {"control", "save", "meta", "row", "preview", "pace"}

\* the controller has run in this iteration: now, ai_max, current_fps and
\* high_mode_until are this iteration's
Controlled == pc \in {"save", "meta", "row", "preview", "pace"}

\* C1: frame-rate hold.  If the smoothed AI peak reached high_fps_trigger in
\* an iteration at time t0, every iteration whose `now` is before
\* t0 + high_fps_hold_seconds leaves the controller with
\* current_fps = max(base_fps, high_fps), whatever its own AI peak is.
C1_HoldKeepsHighFps ==
  Controlled =>
    \A t0 \in triggered_at :
      now < t0 + args.high_fps_hold_seconds => current_fps = HighFps

\* a later iteration inside the hold window whose AI peak is 0
C1_Witness ==
  /\ Controlled
  /\ ai_max = 0
  /\ args.high_fps_trigger > 0
  /\ \E t0 \in triggered_at : t0 < now /\ now < t0 + args.high_fps_hold_seconds
  /\ HighFps # args.base_fps
  /\ current_fps = HighFps

\* scenario 2: no auxiliary model, the default thresholds, weights and decay,
\* and no OCR run so far has returned a hit
Scenario2 ==
  /\ ~args.onnx_model
  /\ args.label_threshold = 2000
  /\ args.text_weight = 75 /\ args.model_weight = 25 /\ args.ema_decay = 65
  /\ args.high_fps_trigger = 2000 /\ args.high_fps_return_threshold = 1200
  /\ ~ocr_seen_hits

\* C2 as stated: in scenario 2 every iteration decides not_ai_ui with
\* confidence exactly 1.0 and leaves current_fps at base_fps.
C2_Original ==
  Scenario2 =>
    /\ Decided => predicted = [label |-> NOT_AI_LABEL, confidence |-> ScoreScale]
    /\ Controlled => current_fps = args.base_fps

\* C2 amended: in scenario 2 every iteration decides not_ai_ui and leaves
\* current_fps at base_fps; the confidence is the smoothed not_ai_ui score,
\* 0.2625 in the first iteration and from there on between 0.2625 and 0.75
\* (the fused score 0.75 is its limit), never 1.0.
C2_EmptyHitsDecideNotAi ==
  Scenario2 =>
    /\ Decided =>
         /\ predicted.label = NOT_AI_LABEL
         /\ predicted.confidence = smoothed_scores[NOT_AI_LABEL]
         /\ predicted.confidence >= 2625
         /\ predicted.confidence <= 7500
         /\ frame_index = 0 => predicted.confidence = 2625
    /\ Controlled => current_fps = args.base_fps

\* a second or later iteration of scenario 2, after its controller step
C2_Witness ==
  /\ Scenario2
  /\ Controlled
  /\ frame_index >= 1
  /\ predicted.confidence > 2625

\* C3: frame-rate return.  An iteration whose `now` is not before
\* high_mode_until (as the trigger step left it) and whose AI peak is at most
\* high_fps_return_threshold sets current_fps = base_fps.
C3_ReturnToBase ==
  (Controlled /\ now >= high_mode_until
     /\ ai_max <= args.high_fps_return_threshold)
    => current_fps = args.base_fps

\* one trigger, then an iteration after the hold with no AI evidence: the
\* rate drops from high to base
C3_Witness ==
  /\ Controlled
  /\ Cardinality(triggered_at) = 1
  /\ args.high_fps_hold_seconds > 0
  /\ \A t0 \in triggered_at : now >= t0 + args.high_fps_hold_seconds
  /\ ai_max = 0
  /\ prev_fps = HighFps
  /\ HighFps # args.base_fps
  /\ current_fps = args.base_fps

\* C4: sticky state.  An iteration outside the hold window whose AI peak is
\* strictly between the return threshold and the trigger leaves current_fps
\* and high_mode_until as the previous iteration left them.
C4_StickyBetweenThresholds ==
  (Controlled /\ now >= high_mode_until
     /\ ai_max > args.high_fps_return_threshold
     /\ ai_max < args.high_fps_trigger)
    => /\ current_fps = prev_fps
       /\ high_mode_until = prev_until

\* high-fps mode outliving its hold window on in-between evidence
C4_Witness ==
  /\ Controlled
  /\ now >= high_mode_until
  /\ ai_max > args.high_fps_return_threshold
  /\ ai_max < args.high_fps_trigger
  /\ triggered_at # {}
  /\ HighFps # args.base_fps
  /\ current_fps = HighFps

\* before the first iteration
BeforeFirstIteration == pc = "top" /\ frame_index = 0

\* C5 as stated: current_fps is always base_fps or high_fps, and starts at
\* base_fps with high_mode_until = 0.
C5_Original ==
  /\ current_fps \in {args.base_fps, args.high_fps}
  /\ BeforeFirstIteration => current_fps = args.base_fps /\ high_mode_until = 0

\* C5 amended: current_fps starts at max(1.0, base_fps) with
\* high_mode_until = 0, and is always one of max(1.0, base_fps), base_fps and
\* max(base_fps, high_fps); so it is base_fps at the start, and always one of
\* {base_fps, high_fps}, whenever base_fps >= 1.
C5_FpsValues ==
  /\ current_fps \in {Max(10, args.base_fps), args.base_fps, HighFps}
  /\ args.base_fps >= 10 => current_fps \in {args.base_fps, args.high_fps}
  /\ BeforeFirstIteration =>
       current_fps = Max(10, args.base_fps) /\ high_mode_until = 0

\* base_fps below 1: the controller has replaced the clamped initial rate by
\* base_fps itself
C5_Witness ==
  /\ args.base_fps < 10
  /\ Controlled
  /\ prev_fps = 10
  /\ current_fps = args.base_fps

\* C6: the text_scores an iteration fuses, fresh or reused, has exactly the
\* closed label set as keys, and its not_ai_ui score is
\* max(0, 1 - max AI score).
C6_TextScoresShape ==
  Decided =>
    /\ DOMAIN text_scores = ClosedLabelSet
    /\ text_scores[NOT_AI_LABEL] = Max(0, ScoreScale - AiPeak(text_scores))

\* an iteration that reuses an OCR result with AI evidence
C6_Witness ==
  /\ pc = "control"
  /\ ~run_ocr_this_frame
  /\ frame_index > 0
  /\ AiPeak(text_scores) > 0

\* no hit's normalized text contains a normalized keyword
NoKeywordMatch(hits) ==
  \A i \in 1..Len(hits) : \A j \in 1..Len(KeywordPairs) :
    ~Contains(KeywordPairs[j].key_norm, normalize_text(hits[i].text))

ScoreReturned == fn_done /\ fn_in.op = "score_text_hits"

\* C7: score_text_hits on a hit list without any keyword match returns 0 for
\* every AI label, 1 for not_ai_ui and no matched hit.
C7_NoMatchScoresZero ==
  (ScoreReturned /\ NoKeywordMatch(fn_in.hits)) =>
    /\ \A label \in AiLabelSet : fn_out.text_scores[label] = 0
    /\ fn_out.text_scores[NOT_AI_LABEL] = ScoreScale
    /\ fn_out.matched = <<>>

\* two hits without a match, one of them empty once normalized
C7_Witness ==
  /\ ScoreReturned
  /\ NoKeywordMatch(fn_in.hits)
  /\ Len(fn_in.hits) = 2
  /\ normalize_text(fn_in.hits[1].text) # <<>>
  /\ normalize_text(fn_in.hits[2].text) = <<>>
  /\ fn_out.text_scores[NOT_AI_LABEL] = ScoreScale

\* scenario 1: the single hit ("ChatGPT is great", 0.9)
Scenario1 == ScoreReturned /\ fn_in.hits = << Hit(TextChatGptIsGreat, 90) >>

KeywordChatGpt == <<"c","h","a","t","g","p","t">>

\* the hit's only match is the keyword "chatgpt", and no other label scores
Scenario1OnlyChatGpt ==
  LET matches == HitMatches(fn_in.hits[1])
  IN  /\ Len(matches) = 1
      /\ matches[1].keyword = KeywordChatGpt
      /\ matches[1].label = "chatgpt_ui"
      /\ \A label \in AiLabelSet \ {"chatgpt_ui"} : RawScores(fn_in.hits)[label] = 0

\* C8 as stated: the weight of "chatgpt" is about 0.69 (0.685 to 0.695) and
\* the raw score of chatgpt_ui about 0.621 (0.6205 to 0.6215).
C8_Original ==
  Scenario1 =>
    /\ Scenario1OnlyChatGpt
    /\ 1000 * KeywordWeight(KeywordChatGpt) >= 685 * WeightScale
    /\ 1000 * KeywordWeight(KeywordChatGpt) <= 695 * WeightScale
    /\ 10 * RawScores(fn_in.hits)["chatgpt_ui"] >= 6205 * 8
    /\ 10 * RawScores(fn_in.hits)["chatgpt_ui"] <= 6215 * 8

\* C8 amended: "chatgpt" is the only match, its weight
\* min(1.0, 0.35 + 7/16) is 0.7875 (63/80), and the raw score of chatgpt_ui
\* is 0.9 * 0.7875 = 0.70875 (5670/8000); the other AI labels accumulate 0.
C8_Scenario1RawScore ==
  Scenario1 =>
    /\ Scenario1OnlyChatGpt
    /\ KeywordWeight(KeywordChatGpt) = 63
    /\ RawScores(fn_in.hits)["chatgpt_ui"] = 5670
    /\ Len(fn_out.matched) = 1
    /\ fn_out.matched[1].score = 5670

C8_Witness ==
  /\ Scenario1
  /\ fn_out.matched[1].keyword = KeywordChatGpt
  /\ fn_out.text_scores["chatgpt_ui"] > 0

FuseReturned == fn_done /\ fn_in.op = "fuse_scores"

\* the fused vector is `scores` on the keys of `scores` and 0 on the keys
\* that only `other` has
FusedIs(scores, other) ==
  /\ DOMAIN fn_out = DOMAIN scores \cup DOMAIN other
  /\ \A label \in DOMAIN scores : fn_out[label] = scores[label]
  /\ \A label \in DOMAIN other \ DOMAIN scores : fn_out[label] = 0

\* C9 as stated: with weights (1, 0) the fused mapping equals text_scores,
\* with weights (0, 1) it equals model_scores.
C9_Original ==
  FuseReturned =>
    /\ (fn_in.text_weight = Hundred /\ fn_in.model_weight = 0)
         => fn_out = fn_in.text_scores
    /\ (fn_in.text_weight = 0 /\ fn_in.model_weight = Hundred)
         => fn_out = fn_in.model_scores

\* C9 amended: with weights (1, 0) the fused mapping has the union of the
\* keys, equals text_scores on every key of text_scores and is 0 on the keys
\* only model_scores has (so it equals text_scores exactly when model_scores
\* has no key outside text_scores); with (0, 1) the same with the roles of
\* text_scores and model_scores exchanged.
C9_FuseUnitWeights ==
  FuseReturned =>
    /\ (fn_in.text_weight = Hundred /\ fn_in.model_weight = 0)
         => /\ FusedIs(fn_in.text_scores, fn_in.model_scores)
            /\ (fn_out = fn_in.text_scores)
                 <=> (DOMAIN fn_in.model_scores \subseteq DOMAIN fn_in.text_scores)
    /\ (fn_in.text_weight = 0 /\ fn_in.model_weight = Hundred)
         => /\ FusedIs(fn_in.model_scores, fn_in.text_scores)
            /\ (fn_out = fn_in.model_scores)
                 <=> (DOMAIN fn_in.text_scores \subseteq DOMAIN fn_in.model_scores)

\* weights (0, 1), a text vector with keys the model vector lacks
C9_Witness ==
  /\ FuseReturned
  /\ fn_in.text_weight = 0 /\ fn_in.model_weight = Hundred
  /\ \E label \in DOMAIN fn_in.model_scores : fn_in.model_scores[label] > 0
  /\ \E label \in DOMAIN fn_in.text_scores \ DOMAIN fn_in.model_scores :
       fn_in.text_scores[label] > 0 /\ fn_out[label] = 0

\* C10: fuse_scores never divides by zero, and with both weights <= 0 every
\* label of text_scores keeps its text score and every label only
\* model_scores has gets 0, as with weights (1, 0).
C10_DegenerateWeights ==
  FuseReturned =>
    /\ FuseWeights(fn_in.text_weight, fn_in.model_weight).total > 0
    /\ (fn_in.text_weight <= 0 /\ fn_in.model_weight <= 0)
         => FusedIs(fn_in.text_scores, fn_in.model_scores)

\* both weights non-positive, text evidence present, a model-only label
C10_Witness ==
  /\ FuseReturned
  /\ fn_in.text_weight < 0 /\ fn_in.model_weight <= 0
  /\ \E label \in DOMAIN fn_in.text_scores : fn_out[label] > 0
  /\ \E label \in DOMAIN fn_in.model_scores \ DOMAIN fn_in.text_scores :
       fn_in.model_scores[label] > 0 /\ fn_out[label] = 0

SmoothReturned == fn_done /\ fn_in.op = "smooth_scores"

\* the smoothed vector is `current` on the keys of `current` and 0 on the
\* keys only `previous` has
SmoothedIsCurrent ==
  /\ DOMAIN fn_out = DOMAIN fn_in.previous \cup DOMAIN fn_in.current
  /\ \A label \in DOMAIN fn_in.current : fn_out[label] = fn_in.current[label]
  /\ \A label \in DOMAIN fn_in.previous \ DOMAIN fn_in.current : fn_out[label] = 0

\* C11 as stated: with decay 0 the result is the current vector, same keys
\* and same values, whatever the previous vector.
C11_Original ==
  (SmoothReturned /\ fn_in.decay = 0) => fn_out = fn_in.current

\* C11 amended: with decay 0 (or below) the result has the union of the keys
\* of previous and current, equals current on every key of current and is 0
\* on the keys only previous has; it is the current vector exactly when
\* previous has no key outside current.
C11_DecayZeroReturnsCurrent ==
  (SmoothReturned /\ fn_in.decay <= 0) =>
    /\ SmoothedIsCurrent
    /\ (fn_out = fn_in.current)
         <=> (DOMAIN fn_in.previous \subseteq DOMAIN fn_in.current)

\* decay 0, a previous vector with scores and with a key current lacks
C11_Witness ==
  /\ SmoothReturned
  /\ fn_in.decay = 0
  /\ \E label \in DOMAIN fn_in.current :
       /\ label \in DOMAIN fn_in.previous
       /\ fn_in.previous[label] # fn_in.current[label]
       /\ fn_out[label] = fn_in.current[label]
  /\ \E label \in DOMAIN fn_in.previous \ DOMAIN fn_in.current :
       fn_in.previous[label] > 0 /\ fn_out[label] = 0

Abs(n) == IF n < 0 THEN -n ELSE n

\* line 350: the decay smooth_scores uses
ClampedDecay(decay) == Min(Max(decay, 0), 99)

\* the gap between a smoothed value and the current value of a label
Gap(scores, label) == Get(scores, label) - Get(fn_in.current, label)

\* half a unit of the score resolution 1/ScoreScale, in hundredths of a unit
HalfUnit == Hundred \div 2

\* one call: each label's gap to `current` is the clamped decay times its gap
\* before the call (to the score resolution), is no larger than before, is
\* strictly smaller wherever the resolution can show it, and with a decay of
\* 0.99 or more the value moves by at most 1% of the gap
SmoothStepShrinks ==
  SmoothReturned =>
    \A label \in DOMAIN fn_out :
      LET before == Gap(fn_in.previous, label)
          after == Gap(fn_out, label)
          d == ClampedDecay(fn_in.decay)
      IN  /\ Abs(Hundred * after - d * before) <= HalfUnit
          /\ (d * before) % Hundred = 0 => Hundred * after = d * before
          /\ Abs(after) <= Abs(before)
          /\ Abs(before) >= Hundred => Abs(after) < Abs(before)
          /\ fn_in.decay >= 99 =>
               Hundred * Abs(fn_out[label] - Get(fn_in.previous, label))
                 <= Abs(before) + HalfUnit

\* the smoothed vector is `current` to the score resolution: no further call
\* moves it
SmoothConverged ==
  /\ SmoothReturned
  /\ \A label \in DOMAIN fn_out :
       (Hundred - ClampedDecay(fn_in.decay)) * Abs(Gap(fn_out, label)) <= HalfUnit

\* C12: smoothing repeatedly towards the same current vector, with any decay:
\* after each call every label's gap is the clamped decay times the gap
\* before it, so it never grows and shrinks while the resolution shows it;
\* with decay 0.99 or more one call moves a label by at most 1% of its gap;
\* and the smoothed vector converges to the current vector.
C12_SmoothConverges == [](SmoothStepShrinks) /\ <>[]SmoothConverged

\* decay above 0.99, a large gap, after a second call of the series
C12_Witness ==
  /\ SmoothReturned
  /\ fn_in.decay > 99
  /\ fn_in.previous # EmptyScores
  /\ \E label \in DOMAIN fn_out :
       /\ Abs(Gap(fn_in.previous, label)) > 5000
       /\ Abs(Gap(fn_out, label)) < Abs(Gap(fn_in.previous, label))
       /\ Abs(Gap(fn_out, label)) > 0

DecideReturned == fn_done /\ fn_in.op = "decide_label"

\* the AI labels among the keys of the vector, and the largest of their scores
AiKeys(scores) == DOMAIN scores \cap AiLabelSet

BestAiScore(scores) ==
  CHOOSE best \in { scores[label] : label \in AiKeys(scores) } :
    \A label \in AiKeys(scores) : scores[label] <= best

\* C13: for a vector with at least one AI key, decide_label returns an AI
\* label exactly when the largest AI score is >= label_threshold (equality
\* included), and then the label carries that score and the confidence is it.
C13_InclusiveThreshold ==
  (DecideReturned /\ AiKeys(fn_in.scores) # {}) =>
    /\ (fn_out.label \in AiLabelSet)
         <=> (BestAiScore(fn_in.scores) >= fn_in.label_threshold)
    /\ fn_out.label # NOT_AI_LABEL =>
         /\ fn_out.label \in AiKeys(fn_in.scores)
         /\ fn_in.scores[fn_out.label] = BestAiScore(fn_in.scores)
         /\ fn_out.confidence = BestAiScore(fn_in.scores)

\* the best AI score equals the threshold exactly
C13_Witness ==
  /\ DecideReturned
  /\ AiKeys(fn_in.scores) # {}
  /\ BestAiScore(fn_in.scores) = fn_in.label_threshold
  /\ fn_in.label_threshold > 0
  /\ fn_out.label \in AiLabelSet
  /\ fn_out.confidence = fn_in.label_threshold

\* C14: without an AI key decide_label returns (not_ai_ui, 1.0); with the best
\* AI score below the threshold it returns not_ai_ui with the vector's own
\* not_ai_ui score if the key is present, else max(0, 1 - best AI score).
C14_Fallback ==
  DecideReturned =>
    /\ AiKeys(fn_in.scores) = {} =>
         fn_out = [label |-> NOT_AI_LABEL, confidence |-> ScoreScale]
    /\ (AiKeys(fn_in.scores) # {}
          /\ BestAiScore(fn_in.scores) < fn_in.label_threshold) =>
         /\ fn_out.label = NOT_AI_LABEL
         /\ NOT_AI_LABEL \in DOMAIN fn_in.scores =>
              fn_out.confidence = fn_in.scores[NOT_AI_LABEL]
         /\ NOT_AI_LABEL \notin DOMAIN fn_in.scores =>
              fn_out.confidence = Max(0, ScoreScale - BestAiScore(fn_in.scores))

\* below the threshold, with a not_ai_ui score that is not the complement of
\* the best AI score
C14_Witness ==
  /\ DecideReturned
  /\ AiKeys(fn_in.scores) # {}
  /\ BestAiScore(fn_in.scores) < fn_in.label_threshold
  /\ NOT_AI_LABEL \in DOMAIN fn_in.scores
  /\ fn_in.scores[NOT_AI_LABEL] # Max(0, ScoreScale - BestAiScore(fn_in.scores))
  /\ fn_out = [label |-> NOT_AI_LABEL, confidence |-> fn_in.scores[NOT_AI_LABEL]]

\* decide_label has returned for a second dict of the same content
DecidedTwice == DecideReturned /\ fn_in.earlier # NoCall

\* the AI labels that carry the largest AI score
TiedBest(scores) ==
  { label \in AiKeys(scores) : scores[label] = BestAiScore(scores) }

\* position of a label in the iteration order
KeyIndex(keys, label) == CHOOSE i \in 1..Len(keys) : keys[i] = label

\* C16 as stated: two vectors with the same labels and scores yield the same
\* (label, confidence), whatever the order of their keys, ties included.
C16_Original == DecidedTwice => fn_out = fn_in.earlier

\* C16 amended: two vectors with the same labels and scores yield the same
\* confidence, and the same label unless several AI labels tie for a largest
\* score that reaches the threshold; then each call returns the tied label
\* that comes first in its own vector's key order.
C16_DeterministicUpToTies ==
  /\ DecidedTwice =>
       /\ fn_out.confidence = fn_in.earlier.confidence
       /\ fn_out.label # fn_in.earlier.label =>
            /\ Cardinality(TiedBest(fn_in.scores)) > 1
            /\ BestAiScore(fn_in.scores) >= fn_in.label_threshold
            /\ {fn_out.label, fn_in.earlier.label} \subseteq TiedBest(fn_in.scores)
  /\ (DecideReturned /\ fn_out.label # NOT_AI_LABEL) =>
       \A label \in TiedBest(fn_in.scores) :
         KeyIndex(fn_in.keys, fn_out.label) <= KeyIndex(fn_in.keys, label)

\* a tie above the threshold decided differently for the two key orders
C16_Witness ==
  /\ DecidedTwice
  /\ Cardinality(TiedBest(fn_in.scores)) > 1
  /\ fn_out.label \in AiLabelSet
  /\ fn_in.earlier.label \in AiLabelSet
  /\ fn_out.label # fn_in.earlier.label
  /\ fn_out.confidence = fn_in.earlier.confidence

\* C15: in every iteration, whatever OCR and the model return (labels outside
\* the closed set included), the decided label is one of the closed label set,
\* the decided confidence lies in [0, 1], and so does every smoothed score.
C15_DecisionInRange ==
  Decided =>
    /\ predicted.label \in ClosedLabelSet
    /\ predicted.confidence >= 0
    /\ predicted.confidence <= ScoreScale
    /\ \A label \in DOMAIN smoothed_scores :
         smoothed_scores[label] >= 0 /\ smoothed_scores[label] <= ScoreScale

\* the model's class_0 carries a larger smoothed score than every AI label,
\* in a second or later iteration
C15_Witness ==
  /\ Decided
  /\ frame_index >= 1
  /\ "class_0" \in DOMAIN smoothed_scores
  /\ smoothed_scores["class_0"] > AiPeak(smoothed_scores)
  /\ predicted.label = NOT_AI_LABEL
  /\ predicted.confidence > 0

\* the OCR decision of this iteration has been taken and `clock` is still
\* the now_loop it was taken at
OcrDecided == pc = "control"

\* the stride condition of the current frame
StrideAllows == frame_index % Max(1, args.ocr_every_n_frames) = 0

\* the interval condition of the current frame, against the time of the
\* most recent OCR run before it
IntervalAllows ==
  LET before == IF run_ocr_this_frame THEN ocr_last.prev_ts ELSE ocr_last.ts
  IN  \/ Max(0, args.ocr_interval_seconds) = 0
      \/ clock - before >= Max(0, args.ocr_interval_seconds)

\* C17: OCR runs on the first frame, and on a later frame exactly when the
\* stride and the interval conditions both hold; a frame without an OCR run
\* uses the hits, matched hits and text_scores of the most recent run; two
\* consecutive runs are at least ocr_interval_seconds apart.
C17_OcrThrottle ==
  OcrDecided =>
    /\ frame_index = 0 => run_ocr_this_frame
    /\ frame_index > 0 => (run_ocr_this_frame <=> (StrideAllows /\ IntervalAllows))
    /\ ~run_ocr_this_frame =>
         /\ ocr_last.runs > 0
         /\ ocr_last.frame < frame_index
         /\ ocr_hits = ocr_last.hits
         /\ matched_hits = score_text_hits(ocr_last.hits, args.keyword_gain).matched
         /\ text_scores = score_text_hits(ocr_last.hits, args.keyword_gain).text_scores
    /\ (run_ocr_this_frame /\ ocr_last.runs > 1) =>
         /\ ocr_last.frame = frame_index
         /\ ocr_last.ts - ocr_last.prev_ts >= args.ocr_interval_seconds

\* a frame the stride allows but the interval does not: the hits of the last
\* run are reused
C17_Witness ==
  /\ OcrDecided
  /\ frame_index > 0
  /\ StrideAllows
  /\ args.ocr_every_n_frames > 1
  /\ ~run_ocr_this_frame
  /\ ocr_hits # <<>>
  /\ AiPeak(text_scores) > 0

\* the frames whose iteration has passed its save step
PastSave ==
  IF pc \in {"preview", "pace"} THEN 0..frame_index ELSE 0..(frame_index - 1)

\* frame f is persisted: image and metadata written, one ledger row queued
Persisted(f) ==
  /\ f \in images
  /\ f \in metas
  /\ Cardinality({ i \in 1..Len(rows_to_append) : rows_to_append[i].image_path = f }) = 1

\* nothing of frame f is persisted
NotPersisted(f) ==
  /\ f \notin images
  /\ f \notin metas
  /\ \A i \in 1..Len(rows_to_append) : rows_to_append[i].image_path # f

\* C18: in save mode 'all' every processed frame is persisted; in 'ai-only' a
\* frame is persisted exactly when the label decided for it is an AI label;
\* saved_count never exceeds the number of processed frames, and every row
\* carries the label decided in the iteration of its frame.
C18_PersistencePolicy ==
  /\ \A f \in PastSave :
       /\ args.save_mode = "all" => Persisted(f)
       /\ args.save_mode = "ai-only" =>
            /\ decided_log[f + 1] # NOT_AI_LABEL => Persisted(f)
            /\ decided_log[f + 1] = NOT_AI_LABEL => NotPersisted(f)
  /\ saved_count = Len(rows_to_append)
  /\ saved_count <= Len(decided_log)
  /\ pc \in {"top", "finally", "append", "done"} => saved_count <= frame_index
  /\ \A i \in 1..Len(rows_to_append) :
       /\ rows_to_append[i].image_path < Len(decided_log)
       /\ rows_to_append[i].label = decided_log[rows_to_append[i].image_path + 1]

\* 'ai-only': a frame decided not_ai_ui was skipped, a later one decided an AI
\* label was persisted
C18_Witness ==
  /\ args.save_mode = "ai-only"
  /\ pc = "pace"
  /\ frame_index = 1
  /\ decided_log[1] = NOT_AI_LABEL
  /\ decided_log[2] \in AiLabelSet
  /\ NotPersisted(0)
  /\ Persisted(1)
  /\ saved_count = 1

\* main has left the loop
Exited == pc \in {"finally", "append", "done"}

\* C19 as stated for the duration limit: once the duration has elapsed no
\* further frame is captured or persisted.
C19_Original ==
  [][(args.duration_seconds > 0 /\ clock - start_time >= args.duration_seconds)
       => (images' = images /\ decided_log' = decided_log)]_vars

\* a frame is captured only in an iteration whose top passed all three stop
\* conditions; with max_frames = N > 0 at most N frames are processed; at most
\* one image is written with the duration elapsed
StopChecksFirst ==
  /\ pc = "process" =>
       /\ ~preview_closed
       /\ ~(args.duration_seconds > 0 /\ clock - start_time >= args.duration_seconds)
       /\ args.max_frames > 0 => frame_index < args.max_frames
  /\ args.max_frames > 0 =>
       /\ frame_index <= args.max_frames
       /\ Len(decided_log) <= args.max_frames
  /\ late_saves <= 1

\* once the preview is closed, and once a top-of-iteration check has found a
\* stop condition, nothing more is captured or persisted
StopsForGood ==
  /\ (preview_closed \/ Exited) =>
       /\ images' = images
       /\ metas' = metas
       /\ rows_to_append' = rows_to_append
       /\ decided_log' = decided_log
       /\ pc' # "process"
  /\ (pc = "top" /\ args.duration_seconds > 0
        /\ clock' - start_time >= args.duration_seconds) => pc' = "finally"
  /\ Exited => Exited'

\* C19 amended: the stop conditions are checked at the top of each iteration
\* before the frame is captured; with max_frames = N > 0 the loop never
\* processes more than N frames and eventually exits; once the preview is
\* closed, or the duration is found elapsed at the top of an iteration,
\* nothing more is captured or persisted; an iteration that passed the check
\* runs to its end, so at most one frame is persisted after the duration
\* elapsed.
C19_LoopTermination ==
  /\ []StopChecksFirst
  /\ [][StopsForGood]_vars
  /\ (args.max_frames > 0) ~> (pc = "done")

\* the frame limit ended the run after exactly max_frames frames
C19_Witness ==
  /\ pc = "done"
  /\ args.max_frames > 0
  /\ frame_index = args.max_frames
  /\ saved_count = args.max_frames

\* every queued row is in the ledger
RowsRecorded ==
  \A i \in 1..Len(rows_to_append) :
    \E j \in 1..Len(ledger) : ledger[j].image_path = rows_to_append[i].image_path

RowsFlushed ==
  \A i \in 1..Len(rows_to_append) :
    \E j \in 1..Len(ledger) :
      /\ ledger[j].image_path = rows_to_append[i].image_path
      /\ ledger[j].label = rows_to_append[i].label

\* C21: a KeyboardInterrupt raised anywhere in the capture loop is caught:
\* main leaves the loop for good, the preview is closed, and when the summary
\* has been printed every row queued so far is in the CSV ledger.
C21_InterruptCaught ==
  interrupted =>
    /\ Exited
    /\ pc \in {"append", "done"} => (args.preview => preview_closed)
    /\ pc = "done" => RowsFlushed /\ Len(ledger) >= Len(rows_to_append)

\* an interrupt in the middle of a later iteration, rows of earlier frames
\* flushed
C21_Witness ==
  /\ interrupted
  /\ pc = "done"
  /\ args.preview
  /\ preview_closed
  /\ Len(decided_log) > frame_index
  /\ frame_index >= 1
  /\ Len(rows_to_append) >= 1
  /\ RowsFlushed

CsvReturned == fn_done /\ fn_in.op = "append_labels_csv"

\* the last row written for an image path: the last one of the old ledger
\* followed by the new rows
LastWritten(path) ==
  LET all == fn_in.frame \o fn_in.rows
      last == CHOOSE i \in 1..Len(all) :
                /\ all[i].image_path = path
                /\ \A j \in (i + 1)..Len(all) : all[j].image_path # path
  IN  all[last]

\* C22: appending a non-empty list leaves one row per image path, the last one
\* written for it, with the rows sorted ascending by image path; appending an
\* empty list leaves the ledger as it was.
C22_LedgerDedupSorted ==
  CsvReturned =>
    /\ fn_in.rows = <<>> => fn_out = fn_in.frame
    /\ fn_in.rows # <<>> =>
         /\ \A i, j \in 1..Len(fn_out) :
              i < j => fn_out[i].image_path < fn_out[j].image_path
         /\ { fn_out[i].image_path : i \in 1..Len(fn_out) }
              = { r.image_path : r \in { fn_in.frame[i] : i \in 1..Len(fn_in.frame) }
                                         \cup { fn_in.rows[i] : i \in 1..Len(fn_in.rows) } }
         /\ \A i \in 1..Len(fn_out) : fn_out[i] = LastWritten(fn_out[i].image_path)

\* an unsorted ledger and a new row that replaces one of its rows
C22_Witness ==
  /\ CsvReturned
  /\ Len(fn_in.frame) = 2
  /\ fn_in.frame[1].image_path > fn_in.frame[2].image_path
  /\ Len(fn_in.rows) >= 1
  /\ fn_in.rows[1].image_path = fn_in.frame[1].image_path
  /\ fn_in.rows[1].label # fn_in.frame[1].label
  /\ Len(fn_out) = 2
  /\ fn_out[2] = fn_in.rows[1]

ParseReturned == fn_done /\ fn_in.op = "parse_ocr_hits"

\* an entry none of the malformations of C23 applies to
WellFormed(item) ==
  /\ item.is_seq
  /\ item.len >= 3
  /\ Strip(item.text_raw) # <<>>
  /\ item.bbox_raw.iterable
  /\ \A i \in 1..Len(item.bbox_raw.points) : item.bbox_raw.points[i].numeric
  /\ item.bbox_raw.points # <<>>

\* C23: parse_ocr_hits lets no exception escape, whatever the malformed
\* entries of the batch (an empty bounding polygon among them), and returns
\* one hit for every well-formed entry, in the order of the batch, with the
\* stripped text and a confidence in [0, 1].  The code violates this for an
\* entry with an empty polygon.
C23_Original ==
  ParseReturned =>
    LET expected == SelectSeq(fn_in.raw, WellFormed)
    IN  /\ ~fn_out.raised
        /\ Len(fn_out.hits) = Len(expected)
        /\ \A i \in 1..Len(expected) :
             /\ fn_out.hits[i].text = Strip(expected[i].text_raw)
             /\ fn_out.hits[i].confidence \in 0..Hundred
             /\ expected[i].conf_raw.number /\ expected[i].conf_raw.value \in 0..Hundred
                  => fn_out.hits[i].confidence = expected[i].conf_raw.value

\* an iteration has just ended with its pause
Paced == pc = "top" /\ paced # NoPace

\* C24 as stated: the pause is max(0, 1/current_fps - elapsed) for every
\* configured base_fps and high_fps.  Violated when current_fps is below one
\* frame per second.
C24_Original ==
  Paced =>
    /\ paced.current_fps = current_fps
    /\ paced.sleep_time = Max(0, (1000 * 10) \div paced.current_fps - paced.elapsed)

\* C24: the pause at the end of an iteration is computed from the
\* controller's current_fps of that iteration.  When current_fps is at least
\* one frame per second the pause fills the iteration up to 1/current_fps
\* seconds; when it is lower the period is one second; the pause is zero
\* whenever processing took at least the period.
C24_PacingPeriod ==
  Paced =>
    /\ paced.current_fps = current_fps
    /\ paced.sleep_time >= 0
    /\ paced.current_fps >= 10 =>
         IF paced.elapsed * paced.current_fps >= 1000 * 10
         THEN paced.sleep_time = 0
         ELSE (paced.sleep_time + paced.elapsed) * paced.current_fps = 1000 * 10
    /\ paced.current_fps < 10 =>
         IF paced.elapsed >= 1000
         THEN paced.sleep_time = 0
         ELSE paced.sleep_time + paced.elapsed = 1000

C24_Witness ==
  /\ Paced
  /\ frame_index >= 2
  /\ paced.current_fps = args.base_fps
  /\ paced.current_fps < 10
  /\ paced.sleep_time = 400

\* score_text_hits has returned for a list with one confidence raised or one
\* hit more than the list of the call before
ScoredTwice == ScoreReturned /\ fn_in.earlier # NoCall

\* the text score of every AI label is at least what it was
ScoresNotBelowEarlier ==
  \A label \in AiLabelSet : fn_out.text_scores[label] >= fn_in.earlier[label]

\* C25 as stated: the text scores do not decrease when a confidence is
\* raised or a hit is added, and they lie in [0, 1), never reaching 1.
\* Violated: the score is exactly 1.0 once raw * gain reaches 54 ln 2.
C25_Original ==
  /\ ScoredTwice => ScoresNotBelowEarlier
  /\ ScoreReturned =>
       LET raw_scores == RawScores(fn_in.hits)
       IN  \A label \in AiLabelSet :
             /\ fn_out.text_scores[label] >= 0
             /\ ~(/\ fn_out.text_scores[label] = ScoreScale
                  /\ RoundsToOne(raw_scores[label], fn_in.keyword_gain))

\* C25: for each AI label, text_scores[label] does not decrease when a hit's
\* confidence is raised or a further hit is added to the list, and it lies
\* in [0, 1]; it is 1 when the raw score times the gain is so large that
\* 1.0 - math.exp(-x) rounds to 1.0.
C25_MonotoneBounded ==
  /\ ScoredTwice => ScoresNotBelowEarlier
  /\ ScoreReturned =>
       LET raw_scores == RawScores(fn_in.hits)
       IN  \A label \in AiLabelSet :
             /\ fn_out.text_scores[label] \in 0..ScoreScale
             /\ RoundsToOne(raw_scores[label], fn_in.keyword_gain)
                  => fn_out.text_scores[label] = ScoreScale
             /\ raw_scores[label] = 0 => fn_out.text_scores[label] = 0

\* a raised confidence raised the score of chatgpt_ui, which stays below 1
C25_Witness ==
  /\ ScoredTwice
  /\ Len(fn_in.hits) = 2
  /\ fn_in.earlier["chatgpt_ui"] > 0
  /\ fn_out.text_scores["chatgpt_ui"] > fn_in.earlier["chatgpt_ui"]
  /\ fn_out.text_scores["chatgpt_ui"] < ScoreScale
  /\ fn_out.text_scores["claude_ui"] = fn_in.earlier["claude_ui"]

\* C26: the hold window only extends.  After the controller step of an
\* iteration, high_mode_until is not below its value before the step; it
\* differs from it only if the smoothed AI peak reached high_fps_trigger, and
\* then it is that iteration's now plus the hold duration, a negative
\* duration counting as 0.
C26_HoldOnlyExtends ==
  Controlled =>
    /\ high_mode_until >= prev_until
    /\ high_mode_until # prev_until => ai_max >= args.high_fps_trigger
    /\ ai_max >= args.high_fps_trigger =>
         high_mode_until = now + Max(0, args.high_fps_hold_seconds)

\* a window armed by an earlier iteration is pushed further out
C26_Witness ==
  /\ Controlled
  /\ frame_index >= 1
  /\ prev_until > 1
  /\ ai_max >= args.high_fps_trigger
  /\ high_mode_until > prev_until
  /\ now < prev_until

\* the program has ended, normally or by an exception
Ended == pc \in {"done", "failed"}

\* C27: whenever the program has ended, whatever the cause, every frame
\* whose image was written has exactly one row in the CSV ledger and the
\* number of appended rows equals saved_count.  The code violates this when
\* an exception or an interrupt ends the loop inside the save block.
C27_Original ==
  Ended =>
    /\ \A f \in images :
         Cardinality({ j \in 1..Len(ledger) : ledger[j].image_path = f }) = 1
    /\ Len(ledger) = saved_count

AllowlistReturned == fn_done /\ fn_in.op = "require_ip_allowlist"

\* the client address belongs to the entry as it is written: the address of
\* a host entry, or an address inside the range of a network entry
BelongsTo(client, raw) ==
  /\ client.present
  /\ client.host.valid
  /\ raw.address.valid
  /\ client.host.version = raw.address.version
  /\ IF raw.slash
     THEN /\ raw.prefix \in 0..AddressBits
          /\ client.host.value \div Pow2(AddressBits - raw.prefix)
               = raw.address.value \div Pow2(AddressBits - raw.prefix)
     ELSE client.host.value = raw.address.value

\* C30: whenever the configured ip_allowlist is non-empty, whatever its
\* entries, a request is admitted only if the client address belongs to one
\* of them, and is rejected with 403 otherwise.  The code violates this when
\* no entry of a non-empty list can be parsed.
C30_Original ==
  (AllowlistReturned /\ fn_in.ip_allowlist # <<>>) =>
    IF \E i \in 1..Len(fn_in.ip_allowlist) :
         BelongsTo(fn_in.client, fn_in.ip_allowlist[i])
    THEN fn_out = 200
    ELSE fn_out = 403

\* C28: the number of _transcribe_sync executions running at the same time
\* never exceeds max(1, stt_max_concurrency), requests that end with the 504
\* timeout included.  The code violates this: the thread of a timed-out
\* request keeps running after its permit was released.
C28_Original == Cardinality(running) <= Max(1, settings.stt_max_concurrency)

\* C29: whatever the outcome of a request, the temp file created for its
\* upload no longer exists when the request has completed.  The code
\* violates this when reading the upload fails.
C29_Original ==
  \A r \in Requests : requests[r].pc = "done" => r \notin temp_files

====
